---- MODULE Spec2Model ----
(***************************************************************************)
(* Quantum Hub: package validation (services/shared/utils/package.py),     *)
(* quantum apps and versions (quantum_app_service), project release        *)
(* (project_service), registration (auth_service) and bearer-token checks  *)
(* (auth_service/main.py, api_gateway/main.py).                            *)
(***************************************************************************)
EXTENDS Integers, Sequences, FiniteSets, TLC

VARIABLES
    db,         \* the committed rows: apps, versions, projects and the id counters
    resp,       \* the response of the last request handled as one step
    reqs,       \* the in-flight requests of the commit-by-commit specification
    pkgIn,      \* the archive handed to validate_package (the dict handed to validate_manifest)
    pkgOut,     \* what validate_package (validate_manifest) returned or raised
    users,      \* the rows of the users table of the auth service
    regs,       \* the in-flight registrations
    tok,        \* the last bearer-token check and what became of the request
    apikeys,    \* the user_api_key rows, the in-memory key store and the last API-key response
    gw,         \* the last request the API gateway handled and what became of it
    ide,        \* the web IDE service: today's date, its two dicts and its last answer
    tokdb       \* the refresh_tokens and password_resets tables, the clock and the last result

vars == <<db, resp, reqs, pkgIn, pkgOut, users, regs, tok, apikeys, gw, ide, tokdb>>

\* ------------------------------------------------------------------------
\* JSON values as json.loads returns them, tagged with their Python type.

None == [t |-> "null"]
Str(s) == [t |-> "str", v |-> s]
Num(n) == [t |-> "num", v |-> n]
List(q) == [t |-> "list", v |-> q]
Dict(f) == [t |-> "dict", v |-> f]

EmptyMap == [k \in {} |-> None]

\* Python truthiness (`not manifest`, `a or b`).
Truthy(x) ==
    CASE x.t = "null" -> FALSE
      [] x.t = "str"  -> x.v # ""
      [] x.t = "num"  -> x.v # 0
      [] x.t = "list" -> Len(x.v) > 0
      [] x.t = "dict" -> DOMAIN x.v # {}

\* dict.get(key) on a dict's mapping.
Get(m, k) == IF k \in DOMAIN m THEN m[k] ELSE None

\* dict.get(key, default).
GetDefault(m, k, d) == IF k \in DOMAIN m THEN m[k] ELSE d

\* Python's `a or b`.
Or(a, b) == IF Truthy(a) THEN a ELSE b

\* m[k] = v
Put(m, k, v) == [x \in DOMAIN m \cup {k} |-> IF x = k THEN v ELSE m[x]]

RECURSIVE MapMsg(_, _, _)
\* [prefix + s + suffix for s in q]
MapMsg(q, prefix, suffix) ==
    IF q = <<>> THEN <<>>
    ELSE <<prefix \o Head(q) \o suffix>> \o MapMsg(Tail(q), prefix, suffix)

\* ------------------------------------------------------------------------
\* services/shared/utils/package.py

ManifestName == "quantum_manifest.json"

\* The file names of the model's archives and str.endswith('.qasm') on them.
QasmNames == {"main.qasm", "aux.qasm"}
OtherNames == {"main.txt"}
FileNames == QasmNames \cup OtherNames
EndsWithQasm(f) == f \in QasmNames \cup {"gone.qasm"}

\* zip_file.namelist()
namelist(pkg) ==
    pkg.files \cup (IF pkg.manifest_file.t = "absent" THEN {} ELSE {ManifestName})

Raise(e, msg) == [k |-> "raise", e |-> e, msg |-> msg]
Ret(v) == [k |-> "ret", v |-> v]

extract_manifest_from_zip(pkg) ==
    IF ~pkg.is_zip THEN Raise("ValueError", "Invalid zip file")
    ELSE IF ManifestName \notin namelist(pkg) THEN Ret(None)
    ELSE IF pkg.manifest_file.t = "badjson"
         THEN Raise("ValueError", "Invalid JSON in quantum_manifest.json")
    ELSE Ret(pkg.manifest_file.v)

\* field_mapping, in the dict's order, and its inverse lookup
\* next(k for k, v in field_mapping.items() if v == field).
field_mapping_keys ==
    <<"app_name", "version", "application_type", "quantum_cli_sdk_version", "app_description">>
field_mapping ==
    [app_name |-> "name", version |-> "version_number", application_type |-> "type",
     quantum_cli_sdk_version |-> "sdk_used", app_description |-> "description"]
original_field(field) ==
    LET hits == SelectSeq(field_mapping_keys, LAMBDA k : field_mapping[k] = field)
    IN IF hits = <<>> THEN field ELSE Head(hits)

required_fields == <<"name", "type", "version_number", "sdk_used">>

\* normalized_manifest of validate_manifest
normalize(m) ==
    LET present == {k \in DOMAIN field_mapping : k \in DOMAIN m}
    IN [f \in {field_mapping[k] : k \in present} |-> m[original_field(f)]]

\* validate_manifest(manifest) of a dict: the result and the manifest as the
\* call leaves it (it writes '_normalized' and 'qasm_files' into its argument).
validate_manifest(m) ==
    LET normalized == normalize(m)
        m1 == Put(m, "_normalized", Dict(normalized))
        missing == SelectSeq(required_fields, LAMBDA f : f \notin DOMAIN normalized)
        nonstr == SelectSeq(required_fields,
                      LAMBDA f : f \in DOMAIN normalized /\ normalized[f].t # "str")
        e1 == MapMsg([i \in 1..Len(missing) |-> original_field(missing[i])],
                     "Missing required field: ", "")
        e2 == MapMsg([i \in 1..Len(nonstr) |-> original_field(nonstr[i])],
                     "Field '", "' must be a string")
        hasSrc == "application_source_file" \in DOMAIN m1
        e3 == IF ~hasSrc THEN <<"Missing required field: application_source_file">>
              ELSE IF m1["application_source_file"].t # "str"
                   THEN <<"Field 'application_source_file' must be a string">>
              ELSE <<>>
        m2 == IF hasSrc /\ m1["application_source_file"].t = "str"
              THEN Put(m1, "qasm_files", List(<<m1["application_source_file"]>>))
              ELSE m1
        errors == e1 \o e2 \o e3
    IN [ok |-> errors = <<>>, errors |-> errors, manifest |-> m2]

\* extract_qasm_files: the names of the archive's .qasm members, or the
\* ValueError a member that is not UTF-8 raises.
extract_qasm_files(pkg) ==
    LET names == {f \in namelist(pkg) : EndsWithQasm(f)}
    IN IF names \cap pkg.bad_utf8 # {}
       THEN Raise("ValueError", "Unable to decode .qasm file as UTF-8")
       ELSE Ret(names)

RECURSIVE NotFound(_, _)
\* the errors of the loop over manifest['qasm_files']
NotFound(q, names) ==
    IF q = <<>> THEN <<>>
    ELSE (IF Head(q).t = "str" /\ Head(q).v \in names THEN <<>>
          ELSE <<"Specified QASM file not found in package: " \o
                 (IF Head(q).t = "str" THEN Head(q).v ELSE "<value>")>>)
         \o NotFound(Tail(q), names)

Result(valid, errors, manifest) ==
    [k |-> "ret", valid |-> valid, errors |-> errors, manifest |-> manifest]

\* validate_package(package_data): (is_valid, errors, manifest), or the
\* exception that escapes it (it catches ValueError only).
validate_package(pkg) ==
    LET ex == extract_manifest_from_zip(pkg)
    IN IF ex.k = "raise" THEN Result(FALSE, <<ex.msg>>, None)
       ELSE IF ~Truthy(ex.v)
            THEN Result(FALSE, <<"Missing quantum_manifest.json in package">>, None)
       ELSE IF ex.v.t # "dict"
            \* validate_manifest assigns manifest['_normalized'] (a str or list
            \* raises TypeError there; a number already at `in`)
            THEN Raise("TypeError", "manifest is not a dict")
       ELSE
         LET vm == validate_manifest(ex.v.v)
             qf == extract_qasm_files(pkg)
         IN IF qf.k = "raise" THEN Result(FALSE, vm.errors \o <<qf.msg>>, None)
            ELSE
              LET e2 == IF qf.v = {} THEN <<"No .qasm files found in package">> ELSE <<>>
                  listed == Get(vm.manifest, "qasm_files")
              IN IF "qasm_files" \in DOMAIN vm.manifest /\ listed.t # "list"
                 \* `for qasm_file in manifest['qasm_files']` over a number
                 THEN Raise("TypeError", "qasm_files is not iterable")
                 ELSE IF "qasm_files" \in DOMAIN vm.manifest
                         /\ \E i \in 1..Len(listed.v) : listed.v[i].t \in {"list", "dict"}
                 \* `qasm_file not in qasm_files` hashes the entry
                 THEN Raise("TypeError", "unhashable type")
                 ELSE
                   LET e3 == IF "qasm_files" \in DOMAIN vm.manifest
                             THEN NotFound(listed.v, qf.v) ELSE <<>>
                       errors == vm.errors \o e2 \o e3
                   IN Result(errors = <<>>, errors, Dict(vm.manifest))

\* ------------------------------------------------------------------------
\* Rows and identifiers.  UUID primary keys are numbered in creation order
\* (created_at grows with the id); 0 is the NULL foreign key.

NULL == "NULL"
NullId == 0

MaxApps == 2
MaxVersions == 2
MaxProjects == 2

\* The rows of the user table that the app and project services read.  A
\* bearer token names one of them: no endpoint deletes a user row.
Users == {"u1", "u2"}
Callers == Users

InitDb ==
    [apps |-> EmptyMap, versions |-> EmptyMap, projects |-> EmptyMap,
     next_app |-> 1, next_ver |-> 1, next_proj |-> 1]

Remove(f, K) == [x \in DOMAIN f \ K |-> f[x]]

\* str.lower() on the strings of the model (every other one is lower case).
Lower(s) ==
    CASE s = "CIRCUIT" -> "circuit"
      [] s = "ALGORITHM" -> "algorithm"
      [] s = "PRIVATE" -> "private"
      [] s = "PUBLIC" -> "public"
      [] s = "MIT" -> "mit"
      [] s = "QISKIT" -> "qiskit"
      [] OTHER -> s

\* A JSON value as the column stores it (None is NULL).
Col(x) == IF x.t = "null" THEN NULL ELSE x.v

\* app_data.get(key, default) on a Python dict of column values.
RawGet(m, k, d) == IF k \in DOMAIN m THEN m[k] ELSE d

\* ------------------------------------------------------------------------
\* services/quantum_app_service/app/services/quantum_app_service.py

get_quantum_apps(d, user_id) == {a \in DOMAIN d.apps : d.apps[a].developer_id = user_id}

versions_of(d, app_id) == {v \in DOMAIN d.versions : d.versions[v].quantum_app_id = app_id}

\* create_quantum_app: one INSERT and commit (the caller has checked that
\* developer_id names a user row, or the foreign key rejects the insert).
create_quantum_app(d, user_id, app_data) ==
    [d EXCEPT
       !.apps = Put(@, d.next_app,
           [developer_id |-> user_id,
            name |-> app_data["name"],
            description |-> RawGet(app_data, "description", NULL),
            type |-> app_data["type"],
            status |-> <<"DRAFT">>,
            visibility |-> RawGet(app_data, "visibility", "PRIVATE"),
            latest_version_id |-> NullId,
            api_url |-> RawGet(app_data, "api_url", NULL),
            documentation_url |-> RawGet(app_data, "documentation_url", NULL),
            license_type |-> RawGet(app_data, "license_type", NULL),
            license_url |-> RawGet(app_data, "license_url", NULL),
            readme_content |-> RawGet(app_data, "readme_content", NULL),
            repository_url |-> RawGet(app_data, "repository_url", NULL)]),
       !.next_app = @ + 1]

\* The UPDATE of update_quantum_app: the entries that are not None.
apply_update(row, app_data) ==
    LET update_data == {k \in DOMAIN app_data : app_data[k] # NULL}
    IN [f \in DOMAIN row |-> IF f \in update_data THEN app_data[f] ELSE row[f]]

\* update_quantum_app: None (the db unchanged) unless the app exists and
\* belongs to the user.
update_quantum_app_ok(d, app_id, user_id) ==
    app_id \in DOMAIN d.apps /\ d.apps[app_id].developer_id = user_id

update_quantum_app(d, app_id, user_id, app_data) ==
    IF ~update_quantum_app_ok(d, app_id, user_id) THEN d
    ELSE [d EXCEPT !.apps[app_id] = apply_update(@, app_data)]

\* create_app_version, first commit: INSERT the version, is_latest = True.
cav_insert(d, app_id, version_data, package_data, source_repo) ==
    [d EXCEPT
       !.versions = Put(@, d.next_ver,
           [quantum_app_id |-> app_id,
            version_number |-> version_data["version_number"],
            sdk_used |-> version_data["sdk_used"],
            input_schema |-> RawGet(version_data, "input_schema", NULL),
            output_schema |-> RawGet(version_data, "output_schema", NULL),
            preferred_platform |-> RawGet(version_data, "preferred_platform", NULL),
            preferred_device_id |-> RawGet(version_data, "preferred_device_id", NULL),
            number_of_qubits |-> RawGet(version_data, "number_of_qubits", NULL),
            package_path |-> RawGet(version_data, "package_path", NULL),
            package_data |-> package_data,
            source_repo |-> source_repo,
            is_latest |-> TRUE,
            status |-> "DRAFT",
            release_notes |-> RawGet(version_data, "release_notes", NULL)]),
       !.next_ver = @ + 1]

cav_clear_previous_mut_keep(d, app_id, version_id) == d

cav_clear_previous_mut_notes(d, app_id, version_id) ==
    [d EXCEPT !.versions =
        [v \in DOMAIN @ |->
            IF @[v].quantum_app_id = app_id /\ v # version_id
            THEN [@[v] EXCEPT !.is_latest = FALSE, !.release_notes = "superseded"]
            ELSE @[v]]]

\* create_app_version, second commit:
\* UPDATE app_version SET is_latest = false WHERE quantum_app_id = :app AND id != :new
cav_clear_previous(d, app_id, version_id) ==
    [d EXCEPT !.versions =
        [v \in DOMAIN @ |->
            IF @[v].quantum_app_id = app_id /\ v # version_id
            THEN [@[v] EXCEPT !.is_latest = FALSE] ELSE @[v]]]

\* create_app_version, third commit: quantum_app.latest_version_id = app_version.id
\* (an UPDATE of that one column; no row is touched if the app is gone).
cav_set_latest(d, app_id, version_id) ==
    IF app_id \notin DOMAIN d.apps THEN d
    ELSE [d EXCEPT !.apps[app_id].latest_version_id = version_id]

\* create_app_version as a whole; the db unchanged (None) if the app does not exist.
create_app_version(d, app_id, version_data, package_data) ==
    IF app_id \notin DOMAIN d.apps THEN d
    ELSE LET vid == d.next_ver
             d1 == cav_insert(d, app_id, version_data, package_data,
                              d.apps[app_id].repository_url)
             d2 == cav_clear_previous(d1, app_id, vid)
         IN cav_set_latest(d2, app_id, vid)

\* delete_quantum_app's DELETE: the versions go with the app (ondelete CASCADE).
delete_app_rows(d, app_id) ==
    [d EXCEPT !.apps = Remove(@, {app_id}),
              !.versions = Remove(@, versions_of(d, app_id))]

\* upload_app_package: the app_data and version_data it reads from a valid
\* manifest (a dict that validate_manifest has normalized).
upload_app_data(manifest) ==
    LET normalized == Get(manifest, "_normalized").v
        app_type == Or(Get(normalized, "type"), Get(manifest, "application_type"))
        visibility == GetDefault(manifest, "visibility", Str("private"))
        license_type == GetDefault(manifest, "license", Str("mit"))
    IN [name |-> Col(Or(Get(normalized, "name"), Get(manifest, "app_name"))),
        description |-> Col(Or(Get(normalized, "description"), Get(manifest, "app_description"))),
        type |-> IF Truthy(app_type) THEN Lower(app_type.v) ELSE "other",
        visibility |-> IF Truthy(visibility) THEN Lower(visibility.v) ELSE "private",
        api_url |-> Col(Get(manifest, "api_url")),
        documentation_url |-> Col(Get(manifest, "documentation_url")),
        license_type |-> IF Truthy(license_type) THEN Lower(license_type.v) ELSE "mit",
        license_url |-> Col(Get(manifest, "license_url")),
        readme_content |-> Col(Get(manifest, "readme")),
        repository_url |-> Col(Get(manifest, "repository_url"))]

upload_version_data(manifest, filename) ==
    LET normalized == Get(manifest, "_normalized").v
        sdk_used == Or(Get(normalized, "sdk_used"),
                       GetDefault(manifest, "quantum_cli_sdk_version", Str("quantum_cli")))
    IN [version_number |-> Col(Or(Get(normalized, "version_number"), Get(manifest, "version"))),
        sdk_used |-> IF Truthy(sdk_used) THEN Lower(sdk_used.v) ELSE "quantum_cli",
        input_schema |-> Col(Get(manifest, "input")),
        output_schema |-> Col(Get(manifest, "expected_output")),
        preferred_platform |-> Col(Get(manifest, "preferred_hardware")),
        preferred_device_id |-> NULL,
        number_of_qubits |-> NULL,
        package_path |-> filename,
        release_notes |-> NULL]

upload_existing_mut_any_name(d, user_id, name) == get_quantum_apps(d, user_id)

\* existing_apps filtered by name: the apps `next(...)` may return (the
\* SELECT has no ORDER BY, so any of them can come first).
upload_existing(d, user_id, name) ==
    {a \in get_quantum_apps(d, user_id) : d.apps[a].name = name}

\* upload_app_package past its checks, for the app it found (NullId: none).
upload_write(d, user_id, app_data, version_data, package_data, existing_app) ==
    IF existing_app # NullId
    THEN create_app_version(update_quantum_app(d, existing_app, user_id, app_data),
                            existing_app, version_data, package_data)
    ELSE create_app_version(create_quantum_app(d, user_id, app_data),
                            d.next_app, version_data, package_data)

\* ------------------------------------------------------------------------
\* services/project_service/app/services/project_service.py

create_project(d, user_id, project_data) ==
    [d EXCEPT
       !.projects = Put(@, d.next_proj,
           [user_id |-> user_id, name |-> project_data.name,
            description |-> project_data.description, repo |-> project_data.repo,
            quantum_app_id |-> NullId]),
       !.next_proj = @ + 1]

get_project_ok_mut_any_user(d, user_id, project_id) == project_id \in DOMAIN d.projects

\* get_project: the project if it exists and belongs to the user.
get_project_ok(d, user_id, project_id) ==
    project_id \in DOMAIN d.projects /\ d.projects[project_id].user_id = user_id

\* delete_project's DELETE, for a project get_project has found.
delete_project(d, project_id) ==
    [d EXCEPT !.projects = Remove(@, {project_id})]

\* update_project writing every field of the request model, unset ones as NULL.
update_project_mut_all_fields(d, project_id, update_data) ==
    [d EXCEPT !.projects[project_id] =
        [f \in DOMAIN @ |->
            IF f \in DOMAIN update_data THEN update_data[f]
            ELSE IF f \in {"name", "description", "repo"} THEN NULL ELSE @[f]]]

\* update_project's UPDATE ... WHERE id = project_id, for a project get_project
\* has found: update_data is project_data.dict(exclude_unset=True), the fields
\* the request body names, each with the value it gives (null included).
update_project(d, project_id, update_data) ==
    [d EXCEPT !.projects[project_id] =
        [f \in DOMAIN @ |-> IF f \in DOMAIN update_data THEN update_data[f] ELSE @[f]]]

\* The UPDATE is refused by the database when it sets project.name, a NOT NULL
\* column, to NULL.
update_project_ok(update_data) ==
    ~("name" \in DOMAIN update_data /\ update_data["name"] = NULL)

\* release_project, first commit: INSERT the quantum app (license_type takes
\* the column default).
rp_insert_app(d, user_id, release_data, repo) ==
    [d EXCEPT
       !.apps = Put(@, d.next_app,
           [developer_id |-> user_id,
            name |-> release_data.name,
            description |-> release_data.description,
            type |-> release_data.type,
            status |-> <<"DRAFT">>,
            visibility |-> release_data.visibility,
            latest_version_id |-> NullId,
            api_url |-> NULL, documentation_url |-> NULL,
            license_type |-> "mit", license_url |-> NULL,
            readme_content |-> NULL,
            repository_url |-> repo]),
       !.next_app = @ + 1]

\* release_project, second commit: INSERT the version.
rp_insert_version(d, app_id, release_data, package_data, repo) ==
    [d EXCEPT
       !.versions = Put(@, d.next_ver,
           [quantum_app_id |-> app_id,
            version_number |-> release_data.version_number,
            sdk_used |-> release_data.sdk_used,
            input_schema |-> release_data.input_schema,
            output_schema |-> release_data.output_schema,
            preferred_platform |-> release_data.preferred_platform,
            preferred_device_id |-> release_data.preferred_device_id,
            number_of_qubits |-> release_data.number_of_qubits,
            package_path |-> release_data.package_path,
            package_data |-> package_data,
            source_repo |-> repo,
            is_latest |-> TRUE,
            status |-> "DRAFT",
            release_notes |-> NULL]),
       !.next_ver = @ + 1]

\* release_project, third commit: quantum_app.latest_version_id = app_version.id
rp_set_latest(d, app_id, version_id) ==
    IF app_id \notin DOMAIN d.apps THEN d
    ELSE [d EXCEPT !.apps[app_id].latest_version_id = version_id]

rp_link_project_mut_skip(d, project_id, app_id) == d

\* release_project, fourth commit: project.quantum_app_id = quantum_app.id
rp_link_project(d, project_id, app_id) ==
    IF project_id \notin DOMAIN d.projects THEN d
    ELSE [d EXCEPT !.projects[project_id].quantum_app_id = app_id]

\* release_project as a whole, for a project get_project has found: it
\* creates an app whether or not the project is linked to one already.
release_project(d, user_id, project_id, release_data, package_data) ==
    LET repo == d.projects[project_id].repo
        app_id == d.next_app
        version_id == d.next_ver
        d1 == rp_insert_app(d, user_id, release_data, repo)
        d2 == rp_insert_version(d1, app_id, release_data, package_data, repo)
        d3 == rp_set_latest(d2, app_id, version_id)
    IN rp_link_project(d3, project_id, app_id)

\* ------------------------------------------------------------------------
\* The requests of the model.

\* Archives: is_zip, the manifest member, the other members, and the .qasm
\* members whose bytes are not UTF-8.
Archive(manifest_file, files, bad_utf8) ==
    [is_zip |-> TRUE, manifest_file |-> manifest_file, files |-> files, bad_utf8 |-> bad_utf8]

Json(v) == [t |-> "json", v |-> v]
Absent == [t |-> "absent"]
BadJson == [t |-> "badjson"]

ManifestA1 ==
    [app_name |-> Str("a"), version |-> Str("1.0.0"), application_type |-> Str("CIRCUIT"),
     quantum_cli_sdk_version |-> Str("QISKIT"), app_description |-> Str("d1"),
     application_source_file |-> Str("main.qasm"), visibility |-> Str("PRIVATE"),
     preferred_platform |-> Str("IBM"), preferred_device_id |-> Str("ibmq_qasm_simulator"),
     number_of_qubits |-> Num(5)]
ManifestA2 ==
    [app_name |-> Str("a"), version |-> Str("2.0.0"), application_type |-> Str("CIRCUIT"),
     quantum_cli_sdk_version |-> Str("QISKIT"), app_description |-> Str("d2"),
     application_source_file |-> Str("main.qasm"), visibility |-> Str("PRIVATE"),
     preferred_platform |-> Str("IBM"), preferred_device_id |-> Str("ibmq_qasm_simulator"),
     number_of_qubits |-> Num(5)]
ManifestB ==
    [app_name |-> Str("b"), version |-> Str("1.0.0"), application_type |-> Str("CIRCUIT"),
     quantum_cli_sdk_version |-> Str("QISKIT"), application_source_file |-> Str("aux.qasm")]

\* The uploaded files, by name: two valid packages, one without a manifest,
\* one whose entry point is missing, one whose manifest is a JSON list.
UploadKeys == {"a1.zip", "a2.zip", "nomanifest.zip", "noentry.zip", "list.zip"}
Bytes(key) ==
    CASE key = "a1.zip" -> Archive(Json(Dict(ManifestA1)), {"main.qasm"}, {})
      [] key = "a2.zip" -> Archive(Json(Dict(ManifestA2)), {"main.qasm", "main.txt"}, {})
      [] key = "nomanifest.zip" -> Archive(Absent, {"main.qasm"}, {})
      [] key = "noentry.zip" -> Archive(Json(Dict(ManifestB)), {"main.qasm"}, {})
      [] key = "list.zip" -> Archive(Json(List(<<Str("a")>>)), {"main.qasm"}, {})

ProjectInputs ==
    {[name |-> "p", description |-> NULL, repo |-> "git://p"]}

ReleaseInputs ==
    {[name |-> "a", description |-> "rel", type |-> "CIRCUIT", version_number |-> "1.0.0",
      sdk_used |-> "QISKIT", visibility |-> "PRIVATE", input_schema |-> NULL,
      output_schema |-> NULL, preferred_platform |-> "IBM",
      preferred_device_id |-> "ibmq_qasm_simulator", number_of_qubits |-> 5,
      package_path |-> NULL]}

AppCreateInputs ==
    {[name |-> "b", description |-> NULL, type |-> "circuit", visibility |-> "PRIVATE",
      api_url |-> NULL, documentation_url |-> NULL, license_type |-> NULL,
      license_url |-> NULL, readme_content |-> NULL, repository_url |-> "git://b"]}

\* Bodies of PUT /projects/{id}: name and description (test_update_project),
\* repo alone, an explicit null description, an explicit null name, no field.
ProjectUpdateInputs ==
    {[name |-> "q", description |-> "d"], [repo |-> "git://q"],
     [description |-> NULL], [name |-> NULL], EmptyMap}

AppUpdateInputs ==
    {[name |-> NULL, description |-> "edited"]}

\* validate_package of each uploaded file.
Validated == [key \in UploadKeys |-> validate_package(Bytes(key))]

RECURSIVE Join(_)
\* ', '.join(errors)
Join(q) ==
    IF q = <<>> THEN ""
    ELSE IF Len(q) = 1 THEN Head(q)
    ELSE Head(q) \o ", " \o Join(Tail(q))

\* ------------------------------------------------------------------------
\* The endpoints, one action per request.  A message is the sequence of the
\* parts it is formatted from.

NoResp == [op |-> "none"]

Response(op, status, message, id) ==
    [op |-> op, status |-> status, message |-> message, id |-> id]

\* POST /projects (create_project_endpoint): the 404 raised inside the try is
\* caught by `except Exception` and leaves as a 500.
CreateProject(c, project_data) ==
    /\ db.next_proj <= MaxProjects
    /\ IF c \notin Users
       THEN /\ db' = db
            /\ resp' = Response("create_project", 500,
                                <<"Failed to create project: ", "User not found">>, NullId)
       ELSE /\ db' = create_project(db, c, project_data)
            /\ resp' = Response("create_project", 201,
                                <<"Project created successfully">>, db.next_proj)
    /\ UNCHANGED <<reqs, pkgIn, pkgOut, users, regs, tok, apikeys, gw, ide, tokdb>>

\* DELETE /projects/{project_id} (delete_project_endpoint): the 404 is raised
\* outside any try.
DeleteProject(c, project_id) ==
    /\ IF ~get_project_ok(db, c, project_id)
       THEN /\ db' = db
            /\ resp' = Response("delete_project", 404, <<"Project not found">>, NullId)
       ELSE /\ db' = delete_project(db, project_id)
            /\ resp' = Response("delete_project", 200,
                                <<"Project deleted successfully">>, project_id)
    /\ UNCHANGED <<reqs, pkgIn, pkgOut, users, regs, tok, apikeys, gw, ide, tokdb>>

\* GET /projects/{project_id} (get_project_endpoint)
GetProject(c, project_id) ==
    /\ db' = db
    /\ resp' = IF ~get_project_ok(db, c, project_id)
               THEN Response("get_project", 404, <<"Project not found">>, NullId)
               ELSE Response("get_project", 200,
                             <<"Project retrieved successfully">>, project_id)
    /\ UNCHANGED <<reqs, pkgIn, pkgOut, users, regs, tok, apikeys, gw, ide, tokdb>>

\* PUT /projects/{project_id} (update_project_endpoint): an empty update_data
\* issues no UPDATE; an exception of the UPDATE leaves the endpoint, which has
\* no try, as a 500.
UpdateProject(c, project_id, update_data) ==
    /\ IF ~get_project_ok(db, c, project_id)
       THEN /\ db' = db
            /\ resp' = Response("update_project", 404, <<"Project not found">>, NullId)
       ELSE IF ~update_project_ok(update_data)
       THEN /\ db' = db
            /\ resp' = Response("update_project", 500, <<"Internal Server Error">>, NullId)
       ELSE /\ db' = update_project(db, project_id, update_data)
            /\ resp' = Response("update_project", 200,
                                <<"Project updated successfully">>, project_id)
    /\ UNCHANGED <<reqs, pkgIn, pkgOut, users, regs, tok, apikeys, gw, ide, tokdb>>

\* POST /projects/{project_id}/release (release_project_endpoint)
ReleaseProject(c, project_id, release_data) ==
    /\ IF ~get_project_ok(db, c, project_id)
       THEN /\ db' = db
            /\ resp' = Response("release", 500,
                                <<"Failed to release project: ", "Project not found">>, NullId)
       ELSE /\ db.next_app <= MaxApps
            /\ db.next_ver <= MaxVersions
            /\ db' = release_project(db, c, project_id, release_data, NULL)
            /\ resp' = Response("release", 200,
                                <<"Project released successfully">>, db.next_app)
    /\ UNCHANGED <<reqs, pkgIn, pkgOut, users, regs, tok, apikeys, gw, ide, tokdb>>

\* POST /quantum-apps (create_quantum_app_endpoint): developer_id is a
\* foreign key to the user table.
CreateQuantumApp(c, app_data) ==
    /\ db.next_app <= MaxApps
    /\ IF c \notin Users
       THEN /\ db' = db
            /\ resp' = Response("create_app", 500,
                                <<"Failed to create quantum app: ", "IntegrityError">>, NullId)
       ELSE /\ db' = create_quantum_app(db, c, app_data)
            /\ resp' = Response("create_app", 201,
                                <<"Quantum app created successfully">>, db.next_app)
    /\ UNCHANGED <<reqs, pkgIn, pkgOut, users, regs, tok, apikeys, gw, ide, tokdb>>

\* PUT /quantum-apps/{app_id} (update_quantum_app_endpoint)
UpdateQuantumApp(c, app_id, app_data) ==
    /\ IF ~update_quantum_app_ok(db, app_id, c)
       THEN /\ db' = db
            /\ resp' = Response("update_app", 404,
                  <<"Quantum app not found or you don't have permission to update it">>, NullId)
       ELSE /\ db' = update_quantum_app(db, app_id, c, app_data)
            /\ resp' = Response("update_app", 200,
                                <<"Quantum app updated successfully">>, app_id)
    /\ UNCHANGED <<reqs, pkgIn, pkgOut, users, regs, tok, apikeys, gw, ide, tokdb>>

DeleteQuantumApp_mut_unchecked(c, app_id) ==
    /\ IF ~update_quantum_app_ok(db, app_id, c)
       THEN /\ db' = db
            /\ resp' = Response("delete_app", 404,
                  <<"Quantum app not found or you don't have permission to delete it">>, NullId)
       ELSE /\ db' = delete_app_rows(db, app_id)
            /\ resp' = Response("delete_app", 200,
                                <<"Quantum app deleted successfully">>, app_id)
    /\ UNCHANGED <<reqs, pkgIn, pkgOut, users, regs, tok, apikeys, gw, ide, tokdb>>

\* DELETE /quantum-apps/{app_id} (delete_quantum_app_endpoint):
\* project.quantum_app_id references the app without ON DELETE, so the DELETE
\* of an app a project is linked to fails.
DeleteQuantumApp(c, app_id) ==
    /\ IF ~update_quantum_app_ok(db, app_id, c)
       THEN /\ db' = db
            /\ resp' = Response("delete_app", 404,
                  <<"Quantum app not found or you don't have permission to delete it">>, NullId)
       ELSE IF \E p \in DOMAIN db.projects : db.projects[p].quantum_app_id = app_id
       THEN /\ db' = db
            /\ resp' = Response("delete_app", 500,
                                <<"Failed to delete quantum app: ", "IntegrityError">>, NullId)
       ELSE /\ db' = delete_app_rows(db, app_id)
            /\ resp' = Response("delete_app", 200,
                                <<"Quantum app deleted successfully">>, app_id)
    /\ UNCHANGED <<reqs, pkgIn, pkgOut, users, regs, tok, apikeys, gw, ide, tokdb>>

upload_rejects_mut_manifest_only(vp) == ~Truthy(vp.manifest)

\* upload_app_package: `if not is_valid or not manifest`
upload_rejects(vp) == ~vp.valid \/ ~Truthy(vp.manifest)

\* POST /quantum-apps/upload (upload_app_package_endpoint with
\* upload_app_package): every exception leaves as a 500.
UploadAppPackage(c, key) ==
    /\ LET vp == Validated[key]
       IN IF vp.k = "raise"
          THEN /\ db' = db
               /\ resp' = Response("upload", 500,
                                   <<"Failed to upload package: ", vp.msg>>, NullId)
          ELSE IF upload_rejects(vp)
          THEN /\ db' = db
               /\ resp' = Response("upload", 500,
                      <<"Failed to upload package: ", "Invalid package: ", Join(vp.errors)>>,
                      NullId)
          ELSE IF c \notin Users
          THEN /\ db' = db
               /\ resp' = Response("upload", 500,
                                   <<"Failed to upload package: ", "User not found">>, NullId)
          ELSE LET app_data == upload_app_data(vp.manifest.v)
                   version_data == upload_version_data(vp.manifest.v, key)
                   existing == upload_existing(db, c, app_data.name)
               IN /\ db.next_ver <= MaxVersions
                  /\ IF existing # {}
                     THEN \E a \in existing :
                            /\ db' = upload_write(db, c, app_data, version_data, key, a)
                            /\ resp' = Response("upload", 200,
                                   <<"Quantum app package uploaded successfully">>, a)
                     ELSE /\ db.next_app <= MaxApps
                          /\ db' = upload_write(db, c, app_data, version_data, key, NullId)
                          /\ resp' = Response("upload", 200,
                                   <<"Quantum app package uploaded successfully">>, db.next_app)
    /\ UNCHANGED <<reqs, pkgIn, pkgOut, users, regs, tok, apikeys, gw, ide, tokdb>>

\* ------------------------------------------------------------------------
\* validate_package on its own.

Pending == [k |-> "pending"]
NoPkg == Archive(Absent, {}, {})

ValidatePackage ==
    /\ pkgOut = Pending
    /\ pkgOut' = validate_package(pkgIn)
    /\ UNCHANGED <<db, resp, reqs, pkgIn, users, regs, tok, apikeys, gw, ide, tokdb>>

\* ------------------------------------------------------------------------
\* Specifications.

NoReqs == <<>>
NoRegs == <<>>
\* No API-key request and no gateway request has been made.
NoKeys == [rows |-> {}, store |-> {}, next |-> 1, out |-> [op |-> "none"]]
NoGw == [route |-> <<>>]
NoIde == [out |-> [op |-> "none"]]
NoTokens == [out |-> [op |-> "none"]]

NoTok ==
    [op |-> "none", token |-> [t |-> "missing"], status |-> 0, detail |-> "",
     forwarded |-> {}, performed |-> {}]

Init ==
    /\ db = InitDb
    /\ resp = NoResp
    /\ reqs = NoReqs
    /\ pkgIn = NoPkg
    /\ pkgOut = Pending
    /\ users = {}
    /\ regs = NoRegs
    /\ tok = NoTok
    /\ apikeys = NoKeys
    /\ gw = NoGw
    /\ ide = NoIde
    /\ tokdb = NoTokens

Next ==
    \/ \E c \in Callers, pd \in ProjectInputs : CreateProject(c, pd)
    \/ \E c \in Callers, p \in 1..MaxProjects : DeleteProject(c, p)
    \/ \E c \in Callers, p \in 1..MaxProjects, rd \in ReleaseInputs : ReleaseProject(c, p, rd)
    \/ \E c \in Callers, ad \in AppCreateInputs : CreateQuantumApp(c, ad)
    \/ \E c \in Callers, a \in 1..MaxApps, ud \in AppUpdateInputs : UpdateQuantumApp(c, a, ud)
    \/ \E c \in Callers, a \in 1..MaxApps : DeleteQuantumApp(c, a)
    \/ \E c \in Callers, key \in UploadKeys : UploadAppPackage(c, key)

Spec == Init /\ [][Next]_vars

\* The project service's CRUD endpoints alone.
NextProj ==
    \/ \E c \in Callers, pd \in ProjectInputs : CreateProject(c, pd)
    \/ \E c \in Callers, p \in 1..MaxProjects : GetProject(c, p)
    \/ \E c \in Callers, p \in 1..MaxProjects, ud \in ProjectUpdateInputs :
          UpdateProject(c, p, ud)
    \/ \E c \in Callers, p \in 1..MaxProjects : DeleteProject(c, p)

SpecProj == Init /\ [][NextProj]_vars

\* The archives validate_package is checked on: every combination of the
\* required manifest keys (absent, a string, a number), of the entry point
\* (absent, a number, a member's name, a name that is no member), of the
\* manifest's own qasm_files entry, of the members and of their encoding;
\* manifests that are not JSON objects; an archive that is no zip file.
RequiredKeys == {"app_name", "version", "application_type", "quantum_cli_sdk_version"}
KeyOptions == {Absent, Str("a"), Num(7)}
SourceOptions == {Absent, Num(7)} \cup {Str(f) : f \in FileNames \cup {"gone.qasm"}}
ListOptions == {Absent, Num(1), List(<<Str("aux.qasm")>>), List(<<List(<<>>)>>)}

MkManifest(req, src, lst) ==
    LET keys == {k \in RequiredKeys : req[k] # Absent}
                \cup (IF src # Absent THEN {"application_source_file"} ELSE {})
                \cup (IF lst # Absent THEN {"qasm_files"} ELSE {})
    IN [k \in keys |-> IF k = "application_source_file" THEN src
                       ELSE IF k = "qasm_files" THEN lst ELSE req[k]]

ManifestFiles ==
    {Absent, BadJson, Json(None), Json(Num(5)), Json(List(<<Str("a")>>))}
    \cup {Json(Dict(MkManifest(req, src, lst))) :
            req \in [RequiredKeys -> KeyOptions], src \in SourceOptions, lst \in ListOptions}

Archives ==
    {[is_zip |-> FALSE, manifest_file |-> Absent, files |-> {}, bad_utf8 |-> {}]}
    \cup {Archive(mf, fs[1], fs[2]) :
            mf \in ManifestFiles,
            fs \in {x \in (SUBSET FileNames) \X (SUBSET QasmNames) : x[2] \subseteq x[1]}}

InitPkg ==
    /\ db = InitDb
    /\ resp = NoResp
    /\ reqs = NoReqs
    /\ pkgIn \in Archives
    /\ pkgOut = Pending
    /\ users = {}
    /\ regs = NoRegs
    /\ tok = NoTok
    /\ apikeys = NoKeys
    /\ gw = NoGw
    /\ ide = NoIde
    /\ tokdb = NoTokens

NextPkg == ValidatePackage

SpecPkg == InitPkg /\ [][NextPkg]_vars

\* ------------------------------------------------------------------------
\* validate_manifest on its own.  Each of the four fields is absent, present
\* under the name the manifest file uses for it (app_name, ...) as a string or
\* as a number, or present under the name the database uses (name, ...); the
\* entry point is absent or a string.
FieldOptions == {"absent", "source_str", "source_num", "target_str"}

MkFields(choice, src) ==
    LET chosen == {f \in DOMAIN choice : choice[f] # "absent"}
        key(f) == IF choice[f] = "target_str" THEN f ELSE original_field(f)
        keys == {key(f) : f \in chosen}
                \cup (IF src # Absent THEN {"application_source_file"} ELSE {})
        field(k) == CHOOSE f \in chosen : key(f) = k
    IN [k \in keys |->
          IF k = "application_source_file" THEN src
          ELSE IF choice[field(k)] = "source_num" THEN Num(7) ELSE Str("a")]

Manifests ==
    {MkFields(choice, src) :
        choice \in [{"name", "type", "version_number", "sdk_used"} -> FieldOptions],
        src \in {Absent, Str("main.qasm")}}

ValidateManifest ==
    /\ pkgOut = Pending
    /\ pkgOut' = validate_manifest(pkgIn)
    /\ UNCHANGED <<db, resp, reqs, pkgIn, users, regs, tok, apikeys, gw, ide, tokdb>>

InitManifest ==
    /\ db = InitDb
    /\ resp = NoResp
    /\ reqs = NoReqs
    /\ pkgIn \in Manifests
    /\ pkgOut = Pending
    /\ users = {}
    /\ regs = NoRegs
    /\ tok = NoTok
    /\ apikeys = NoKeys
    /\ gw = NoGw
    /\ ide = NoIde
    /\ tokdb = NoTokens

NextManifest == ValidateManifest

SpecManifest == InitManifest /\ [][NextManifest]_vars

\* ------------------------------------------------------------------------
\* The requests commit by commit.  release_project and upload_app_package
\* commit after each write, and the requests of different sessions
\* interleave at their commits.  A request in flight is its operation, its
\* caller, its arguments, its position, the app and version it works on and
\* the status of its answer (0 until it answers).

MaxRequests == 2

Request(op, c, project_id, repo, data, pc, app, ver, status) ==
    [op |-> op, c |-> c, project_id |-> project_id, repo |-> repo, data |-> data,
     pc |-> pc, app |-> app, ver |-> ver, status |-> status]

\* release_project up to its first commit: the SELECT of get_project; the
\* endpoint answers 500 when it finds nothing.
StartRelease(c, project_id, release_data) ==
    /\ Len(reqs) < MaxRequests
    /\ reqs' = Append(reqs,
         IF get_project_ok(db, c, project_id)
         THEN Request("release", c, project_id, db.projects[project_id].repo, release_data,
                      "insert_app", NullId, NullId, 0)
         ELSE Request("release", c, project_id, NULL, release_data,
                      "failed", NullId, NullId, 500))
    /\ UNCHANGED <<db, resp, pkgIn, pkgOut, users, regs, tok, apikeys, gw, ide, tokdb>>

\* release_project, one commit.  The session holds the project row it read:
\* its repo is the one read at the start, and the UPDATE of a project row that
\* is gone matches no row, which the flush raises as StaleDataError.
ReleaseCommit(i) ==
    LET r == reqs[i]
    IN /\ r.op = "release"
       /\ \/ /\ r.pc = "insert_app"
             /\ db.next_app <= MaxApps
             /\ db' = rp_insert_app(db, r.c, r.data, r.repo)
             /\ reqs' = [reqs EXCEPT ![i].pc = "insert_version", ![i].app = db.next_app]
          \/ /\ r.pc = "insert_version"
             /\ db.next_ver <= MaxVersions
             /\ db' = rp_insert_version(db, r.app, r.data, NULL, r.repo)
             /\ reqs' = [reqs EXCEPT ![i].pc = "set_latest", ![i].ver = db.next_ver]
          \/ /\ r.pc = "set_latest"
             /\ db' = rp_set_latest(db, r.app, r.ver)
             /\ reqs' = [reqs EXCEPT ![i].pc = "link_project"]
          \/ /\ r.pc = "link_project"
             /\ IF r.project_id \in DOMAIN db.projects
                THEN /\ db' = rp_link_project(db, r.project_id, r.app)
                     /\ reqs' = [reqs EXCEPT ![i].pc = "done", ![i].status = 200]
                ELSE /\ db' = db
                     /\ reqs' = [reqs EXCEPT ![i].pc = "failed", ![i].status = 500]
       /\ UNCHANGED <<resp, pkgIn, pkgOut, users, regs, tok, apikeys, gw, ide, tokdb>>

\* upload_app_package up to its first commit: validate_package, the SELECT of
\* the user and of the caller's apps.
StartUpload(c, key) ==
    /\ Len(reqs) < MaxRequests
    /\ LET vp == Validated[key]
       IN IF vp.k = "raise" \/ upload_rejects(vp) \/ c \notin Users
          THEN reqs' = Append(reqs, Request("upload", c, NullId, NULL, key, "failed", NullId, NullId, 500))
          ELSE LET existing == upload_existing(db, c, upload_app_data(vp.manifest.v).name)
               IN IF existing # {}
                  THEN \E a \in existing :
                         reqs' = Append(reqs,
                                   Request("upload", c, NullId, NULL, key, "update_app", a, NullId, 0))
                  ELSE reqs' = Append(reqs,
                                 Request("upload", c, NullId, NULL, key, "insert_app", NullId, NullId, 0))
    /\ UNCHANGED <<db, resp, pkgIn, pkgOut, users, regs, tok, apikeys, gw, ide, tokdb>>

\* upload_app_package, one commit: update_quantum_app or create_quantum_app,
\* then the three commits of create_app_version.
UploadCommit(i) ==
    LET r == reqs[i]
        manifest == Validated[r.data].manifest.v
    IN /\ r.op = "upload"
       /\ \/ /\ r.pc = "update_app"
             /\ db' = update_quantum_app(db, r.app, r.c, upload_app_data(manifest))
             /\ reqs' = [reqs EXCEPT ![i].pc = "insert_version"]
          \/ /\ r.pc = "insert_app"
             /\ db.next_app <= MaxApps
             /\ db' = create_quantum_app(db, r.c, upload_app_data(manifest))
             /\ reqs' = [reqs EXCEPT ![i].pc = "insert_version", ![i].app = db.next_app]
          \/ /\ r.pc = "insert_version"
             /\ db.next_ver <= MaxVersions
             /\ db' = cav_insert(db, r.app, upload_version_data(manifest, r.data), r.data,
                                 db.apps[r.app].repository_url)
             /\ reqs' = [reqs EXCEPT ![i].pc = "clear_previous", ![i].ver = db.next_ver]
          \/ /\ r.pc = "clear_previous"
             /\ db' = cav_clear_previous(db, r.app, r.ver)
             /\ reqs' = [reqs EXCEPT ![i].pc = "set_latest"]
          \/ /\ r.pc = "set_latest"
             /\ db' = cav_set_latest(db, r.app, r.ver)
             /\ reqs' = [reqs EXCEPT ![i].pc = "done", ![i].status = 200]
       /\ UNCHANGED <<resp, pkgIn, pkgOut, users, regs, tok, apikeys, gw, ide, tokdb>>

NextSteps ==
    \/ \E c \in Callers, pd \in ProjectInputs : CreateProject(c, pd)
    \/ \E c \in Callers, p \in 1..MaxProjects : DeleteProject(c, p)
    \/ \E c \in Callers, p \in 1..MaxProjects, rd \in ReleaseInputs : StartRelease(c, p, rd)
    \/ \E i \in 1..Len(reqs) : ReleaseCommit(i)
    \/ \E c \in Callers, key \in UploadKeys : StartUpload(c, key)
    \/ \E i \in 1..Len(reqs) : UploadCommit(i)

SpecSteps == Init /\ [][NextSteps]_vars

\* ------------------------------------------------------------------------
\* services/auth_service: registration, SELECT by SELECT.  users is the user
\* table, on which username and email are UNIQUE; a registration in flight is
\* its input, its position and the status of its answer (0 until it answers).

MaxRegistrations == 2

Usernames == {"alice", "bob"}
Emails == {"a@x.org", "b@x.org"}

get_user_by_email(us, email) == {u \in us : u.email = email}

get_user_by_username(us, username) == {u \in us : u.username = username}

Registration(username, email, pc, status, detail) ==
    [username |-> username, email |-> email, pc |-> pc, status |-> status, detail |-> detail]

\* The INSERT of create_user and its commit: the UNIQUE constraints reject a
\* row whose username or email is in the table (IntegrityError).
insert_user_ok(us, r) ==
    get_user_by_username(us, r.username) = {} /\ get_user_by_email(us, r.email) = {}

insert_user(us, r) ==
    us \cup {[id |-> Cardinality(us) + 1, username |-> r.username, email |-> r.email]}

\* POST /auth/register up to its first SELECT.
StartRegister(username, email) ==
    /\ Len(regs) < MaxRegistrations
    /\ regs' = Append(regs,
         IF get_user_by_email(users, email) # {}
         THEN Registration(username, email, "rejected", 400, "Email already registered")
         ELSE Registration(username, email, "check_username", 0, ""))
    /\ UNCHANGED <<db, resp, reqs, pkgIn, pkgOut, users, tok, apikeys, gw, ide, tokdb>>

\* register and create_user, one awaited statement: the endpoint's SELECT by
\* username, create_user's SELECT by username and by email, and the commit.
\* IntegrityError is no HTTPException: it passes register's except clause and
\* leaves as a 500.
RegisterStep(i) ==
    LET r == regs[i]
        Reject(detail) ==
            /\ regs' = [regs EXCEPT ![i].pc = "rejected", ![i].status = 400,
                                    ![i].detail = detail]
            /\ users' = users
        Goto(pc) ==
            /\ regs' = [regs EXCEPT ![i].pc = pc]
            /\ users' = users
    IN /\ \/ /\ r.pc = "check_username"
             /\ IF get_user_by_username(users, r.username) # {}
                THEN Reject("Username already taken")
                ELSE Goto("create_user_username")
          \/ /\ r.pc = "create_user_username"
             /\ IF get_user_by_username(users, r.username) # {}
                THEN Reject("Username already registered")
                ELSE Goto("create_user_email")
          \/ /\ r.pc = "create_user_email"
             /\ IF get_user_by_email(users, r.email) # {}
                THEN Reject("Email already registered")
                ELSE Goto("commit")
          \/ /\ r.pc = "commit"
             /\ IF insert_user_ok(users, r)
                THEN /\ users' = insert_user(users, r)
                     /\ regs' = [regs EXCEPT ![i].pc = "done", ![i].status = 201]
                ELSE /\ users' = users
                     /\ regs' = [regs EXCEPT ![i].pc = "error", ![i].status = 500,
                                             ![i].detail = "Internal Server Error"]
       /\ UNCHANGED <<db, resp, reqs, pkgIn, pkgOut, tok, apikeys, gw, ide, tokdb>>

NextReg ==
    \/ \E username \in Usernames, email \in Emails : StartRegister(username, email)
    \/ \E i \in 1..Len(regs) : RegisterStep(i)

SpecReg == Init /\ [][NextReg]_vars

\* ------------------------------------------------------------------------
\* Bearer tokens.  A token is what jwt.decode can tell of it: whether it
\* parses, the key that signed it, whether its exp has passed and its sub
\* claim.  tok is the last answer with the requests forwarded to a backend
\* and the protected operations performed so far.

SECRET_KEY == "secret"

NoToken == [t |-> "missing"]
Bearer(wellformed, key, expired, sub) ==
    [t |-> "bearer", wellformed |-> wellformed, key |-> key, expired |-> expired, sub |-> sub]

Malformed == Bearer(FALSE, NULL, FALSE, NULL)
WrongKey == Bearer(TRUE, "other-key", FALSE, "alice")
Expired == Bearer(TRUE, SECRET_KEY, TRUE, "alice")
NoSub == Bearer(TRUE, SECRET_KEY, FALSE, NULL)

Tokens ==
    {NoToken, Malformed, WrongKey, Expired, NoSub,
     Bearer(TRUE, SECRET_KEY, FALSE, "alice"), Bearer(TRUE, SECRET_KEY, FALSE, "ghost")}

\* jwt.decode(token, key, algorithms=[ALGORITHM]) of PyJWT
jwt_decode(t, key) ==
    IF ~t.wellformed THEN Raise("DecodeError", "Not enough segments")
    ELSE IF t.key # key THEN Raise("InvalidSignatureError", "Signature verification failed")
    ELSE IF t.expired THEN Raise("ExpiredSignatureError", "Signature has expired")
    ELSE Ret([sub |-> t.sub])

\* The names of the module that `import jwt` binds, the one whose encode and
\* decode the services call (PyJWT): it has no JWTError.
jwt_module ==
    {"encode", "decode", "PyJWTError", "InvalidTokenError", "DecodeError",
     "InvalidSignatureError", "ExpiredSignatureError"}

Http(status, detail) == [k |-> "http", status |-> status, detail |-> detail]

\* `try: ... except jwt.JWTError: raise <401>` on the outcome of the try
\* block: a value passes; for an exception the clause's expression is
\* evaluated, which is an AttributeError (a 500) when the module lacks the
\* name; an HTTPException is no JWTError and goes on as it is.
except_JWTError(outcome, on_error) ==
    IF outcome.k = "ret" THEN outcome
    ELSE IF "JWTError" \notin jwt_module THEN Http(500, "Internal Server Error")
    ELSE IF outcome.k = "http" THEN outcome
    ELSE on_error

\* OAuth2PasswordBearer: no Authorization header is a 401.
oauth2_scheme(t) ==
    IF t = NoToken THEN Http(401, "Not authenticated") ELSE Ret(t)

\* api_gateway verify_token
verify_token(t) ==
    LET invalid == Http(401, "Invalid token")
        d == jwt_decode(t, SECRET_KEY)
    IN except_JWTError(IF d.k = "raise" THEN d
                       ELSE IF d.v.sub = NULL THEN invalid
                       ELSE Ret(d.v.sub),
                       invalid)

\* auth_service get_current_user: the token, then the user row of its sub.
get_current_user(t, us) ==
    LET credentials_exception == Http(401, "Could not validate credentials")
        d == jwt_decode(t, SECRET_KEY)
        checked == except_JWTError(IF d.k = "raise" THEN d
                                   ELSE IF d.v.sub = NULL THEN credentials_exception
                                   ELSE Ret(d.v.sub),
                                   credentials_exception)
    IN IF checked.k # "ret" THEN checked
       ELSE IF get_user_by_username(us, checked.v) = {} THEN credentials_exception
       ELSE checked

\* quantum_app_service get_current_user_id: every exception, the 401 it
\* raises itself included, is caught and answered with a 401.
get_current_user_id(t) ==
    LET d == jwt_decode(t, SECRET_KEY)
    IN IF d.k = "raise" THEN Http(401, "Could not validate credentials: " \o d.msg)
       ELSE IF d.v.sub = NULL THEN Http(401, "Could not validate credentials: ")
       ELSE Ret(d.v.sub)

\* The status HTTPBearer answers a request without credentials with: 403 in
\* the releases of the framework up to the one that changed it to 401.
HTTPBearerMissing == {401, 403}

\* The protected routes of the gateway and the backend path of each.
GatewayRoutes ==
    {"/auth/users/me", "/projects", "/registry", "/marketplace"}

\* What forward_request answers: the backend's answer, or a 500 if the call fails.
BackendStatuses == {200, 500}

Answer(op, token, status, detail, forwarded, performed) ==
    [op |-> op, token |-> token, status |-> status, detail |-> detail,
     forwarded |-> forwarded, performed |-> performed]

\* A protected route of the gateway: verify_token, then forward_request.
GatewayRequest(route, t) ==
    /\ LET scheme == oauth2_scheme(t)
           checked == IF scheme.k = "ret" THEN verify_token(t) ELSE scheme
       IN IF checked.k = "ret"
          THEN \E s \in BackendStatuses :
                 tok' = Answer(route, t, s, "", tok.forwarded \cup {route}, tok.performed)
          ELSE tok' = Answer(route, t, checked.status, checked.detail,
                             tok.forwarded, tok.performed)
    /\ UNCHANGED <<db, resp, reqs, pkgIn, pkgOut, users, regs, apikeys, gw, ide, tokdb>>

\* GET /users/me of the auth service (read_users_me)
ReadUsersMe(t) ==
    /\ LET scheme == oauth2_scheme(t)
           checked == IF scheme.k = "ret" THEN get_current_user(t, users) ELSE scheme
       IN IF checked.k = "ret"
          THEN tok' = Answer("read_users_me", t, 200, "", tok.forwarded,
                             tok.performed \cup {"read_users_me"})
          ELSE tok' = Answer("read_users_me", t, checked.status, checked.detail,
                             tok.forwarded, tok.performed)
    /\ UNCHANGED <<db, resp, reqs, pkgIn, pkgOut, users, regs, apikeys, gw, ide, tokdb>>

\* GET /quantum-apps of the app service (get_quantum_apps_endpoint)
GetQuantumApps(t) ==
    /\ IF t = NoToken
       THEN \E s \in HTTPBearerMissing :
              tok' = Answer("get_quantum_apps", t, s, "Not authenticated",
                            tok.forwarded, tok.performed)
       ELSE LET checked == get_current_user_id(t)
            IN IF checked.k = "ret"
               THEN tok' = Answer("get_quantum_apps", t, 200, "", tok.forwarded,
                                  tok.performed \cup {"get_quantum_apps"})
               ELSE tok' = Answer("get_quantum_apps", t, checked.status, checked.detail,
                                  tok.forwarded, tok.performed)
    /\ UNCHANGED <<db, resp, reqs, pkgIn, pkgOut, users, regs, apikeys, gw, ide, tokdb>>

InitTok ==
    /\ db = InitDb
    /\ resp = NoResp
    /\ reqs = NoReqs
    /\ pkgIn = NoPkg
    /\ pkgOut = Pending
    /\ users = {[id |-> 1, username |-> "alice", email |-> "a@x.org"]}
    /\ regs = NoRegs
    /\ tok = NoTok
    /\ apikeys = NoKeys
    /\ gw = NoGw
    /\ ide = NoIde
    /\ tokdb = NoTokens

NextTok ==
    \/ \E route \in GatewayRoutes, t \in Tokens : GatewayRequest(route, t)
    \/ \E t \in Tokens : ReadUsersMe(t)
    \/ \E t \in Tokens : GetQuantumApps(t)

SpecTok == InitTok /\ [][NextTok]_vars

\* ------------------------------------------------------------------------
\* API keys: the endpoints of auth_service/app/api/endpoints/api_keys.py over
\* the user_api_key table, and the in-memory service api_key_service.py.  A
\* key is the sequence of its characters.

MaxKeys == 2

\* range(32) of generate_api_key and generate_api_key_string.
RandomLen == 32

\* '*' * n
Stars(n) == [i \in 1..n |-> "*"]

\* Three of the strings secrets.choice can draw.
RandomParts ==
    {[i \in 1..RandomLen |-> "a"],
     [i \in 1..RandomLen |-> IF i <= 16 THEN "a" ELSE "b"],
     [i \in 1..RandomLen |-> IF i % 2 = 0 THEN "x" ELSE "y"]}

\* generate_api_key(prefix) and generate_api_key_string(prefix):
\* f"{prefix}_{random_part}".
generate_api_key(prefix, random_part) == prefix \o <<"_">> \o random_part

\* create_api_key's key prefix, from the words in the lower-cased name.
key_prefix(name) ==
    CASE name = "Production" -> <<"q", "h", "_", "p", "k">>
      [] name = "dev box" -> <<"q", "h", "_", "d", "k">>
      [] name = "Test API Key" -> <<"q", "h", "_", "t", "k">>
      [] OTHER -> <<"q", "h">>

KeyNames == {"Production", "My key"}

RECURSIVE split(_)
\* str.split("_")
split(s) ==
    IF \A i \in 1..Len(s) : s[i] # "_"
    THEN <<s>>
    ELSE LET i == CHOOSE j \in 1..Len(s) : s[j] = "_" /\ \A k \in 1..(j - 1) : s[k] # "_"
         IN <<SubSeq(s, 1, i - 1)>> \o split(SubSeq(s, i + 1, Len(s)))

RECURSIVE join(_)
\* "_".join(parts)
join(parts) ==
    IF Len(parts) = 0 THEN <<>>
    ELSE IF Len(parts) = 1 THEN parts[1]
    ELSE parts[1] \o <<"_">> \o join(Tail(parts))

\* s[0:n] and s[-n:]
First(s, n) == SubSeq(s, 1, IF Len(s) < n THEN Len(s) ELSE n)
Last(s, n) == SubSeq(s, IF Len(s) < n THEN 1 ELSE Len(s) - n + 1, Len(s))

\* The masking statements of the list, get and update endpoints, on the copy
\* of a row's __dict__: only a dict with a truthy "key" entry is touched.
masked_key_dict(key_dict) ==
    IF "key" \in DOMAIN key_dict /\ key_dict["key"] # <<>>
    THEN LET original_key == key_dict["key"]
             prefix == First(split(original_key), 2)
             prefix_str == join(prefix)
         IN [key_dict EXCEPT !["key"] = prefix_str \o <<"_">> \o Stars(12) \o Last(original_key, 4)]
    ELSE key_dict

\* api_key_service's masked_key: f"{key.key[:8]}{'*' * 12}{key.key[-4:]}".
masked_key(key) == First(key, 8) \o Stars(12) \o Last(key, 4)

\* APIKeyResponse(...) of get_api_keys and get_api_key.
APIKeyResponse(key) ==
    [id |-> key.id, key |-> masked_key(key.key), name |-> key.name, is_active |-> key.is_active]

\* A row of user_api_key as the mapped class the repository imports
\* (shared.database.models.user.UserApiKey) loads it: the secret is the
\* attribute `value`.
UserApiKey(id, user_id, name, value) ==
    [id |-> id, user_id |-> user_id, name |-> name, value |-> value]

\* Rows the table can hold; their values are keys generate_api_key() makes.
TableRows ==
    {UserApiKey(1, "u1", "My key", generate_api_key(<<"q", "h">>, [i \in 1..RandomLen |-> "a"])),
     UserApiKey(2, "u1", "Production",
                generate_api_key(<<"q", "h">>, [i \in 1..RandomLen |-> IF i <= 16 THEN "a" ELSE "b"])),
     UserApiKey(3, "u2", "My key",
                generate_api_key(<<"q", "h">>, [i \in 1..RandomLen |-> IF i % 2 = 0 THEN "x" ELSE "y"]))}

RowIds == {row.id : row \in TableRows}

KeyOut(op, status, data) == [op |-> op, status |-> status, data |-> data]

\* POST /api-keys (create_api_key_endpoint): the repository's create_api_key
\* builds UserApiKey(key=..., expires_at=...), attributes the mapped class does
\* not have; the TypeError is caught and leaves as a 500.
CreateApiKeyEndpoint(c, name) ==
    /\ apikeys' = [apikeys EXCEPT !.out = KeyOut("create_api_key_endpoint", 500, {})]
    /\ UNCHANGED <<db, resp, reqs, pkgIn, pkgOut, users, regs, tok, gw, ide, tokdb>>

\* GET /api-keys (get_api_keys_endpoint)
GetApiKeysEndpoint(c) ==
    /\ LET api_keys == {row \in apikeys.rows : row.user_id = c}
           masked_keys == {masked_key_dict(key) : key \in api_keys}
       IN apikeys' = [apikeys EXCEPT !.out = KeyOut("get_api_keys_endpoint", 200, masked_keys)]
    /\ UNCHANGED <<db, resp, reqs, pkgIn, pkgOut, users, regs, tok, gw, ide, tokdb>>

\* GET /api-keys/{key_id} (get_api_key_endpoint): get_api_key_by_id(db,
\* api_key_id) is called with three arguments; the TypeError leaves as a 500.
GetApiKeyEndpoint(c, key_id) ==
    /\ apikeys' = [apikeys EXCEPT !.out = KeyOut("get_api_key_endpoint", 500, {})]
    /\ UNCHANGED <<db, resp, reqs, pkgIn, pkgOut, users, regs, tok, gw, ide, tokdb>>

\* PUT /api-keys/{key_id} (update_api_key_endpoint): update_api_key receives
\* the key id as name and the request body as is_active, a column the table
\* does not have; the UPDATE raises and the request is answered 500.
UpdateApiKeyEndpoint(c, key_id) ==
    /\ apikeys' = [apikeys EXCEPT !.out = KeyOut("update_api_key_endpoint", 500, {})]
    /\ UNCHANGED <<db, resp, reqs, pkgIn, pkgOut, users, regs, tok, gw, ide, tokdb>>

\* The masking statements applied to the dict of a row that has its secret
\* under "key", as the endpoints expect.
MaskKeyDict(row) ==
    /\ apikeys' = [apikeys EXCEPT !.out =
          KeyOut("masked_key_dict", 0,
                 {masked_key_dict([id |-> row.id, name |-> row.name, key |-> row.value])})]
    /\ UNCHANGED <<db, resp, reqs, pkgIn, pkgOut, users, regs, tok, gw, ide, tokdb>>

\* api_key_service.create_api_key: the key is stored and returned unmasked.
create_api_key(user_id, name, random_part) ==
    /\ apikeys.next <= MaxKeys
    /\ LET api_key == [id |-> apikeys.next, user_id |-> user_id, name |-> name,
                       key |-> generate_api_key(key_prefix(name), random_part),
                       is_active |-> TRUE]
       IN apikeys' = [apikeys EXCEPT !.store = @ \cup {api_key}, !.next = @ + 1,
                                     !.out = KeyOut("create_api_key", 0, {api_key})]
    /\ UNCHANGED <<db, resp, reqs, pkgIn, pkgOut, users, regs, tok, gw, ide, tokdb>>

\* api_key_service.get_api_keys
get_api_keys(user_id) ==
    /\ apikeys' = [apikeys EXCEPT !.out =
          KeyOut("get_api_keys", 0,
                 {APIKeyResponse(key) : key \in {k \in apikeys.store : k.user_id = user_id}})]
    /\ UNCHANGED <<db, resp, reqs, pkgIn, pkgOut, users, regs, tok, gw, ide, tokdb>>

\* api_key_service.get_api_key
get_api_key(user_id, key_id) ==
    /\ apikeys' = [apikeys EXCEPT !.out =
          KeyOut("get_api_key", 0,
                 {APIKeyResponse(key) :
                    key \in {k \in apikeys.store : k.user_id = user_id /\ k.id = key_id}})]
    /\ UNCHANGED <<db, resp, reqs, pkgIn, pkgOut, users, regs, tok, gw, ide, tokdb>>

\* api_key_service.revoke_api_key
revoke_api_key(user_id, key_id) ==
    /\ apikeys' = [apikeys EXCEPT
          !.store = {IF k.user_id = user_id /\ k.id = key_id
                     THEN [k EXCEPT !.is_active = FALSE] ELSE k : k \in @},
          !.out = KeyOut("revoke_api_key", 0, {})]
    /\ UNCHANGED <<db, resp, reqs, pkgIn, pkgOut, users, regs, tok, gw, ide, tokdb>>

InitKeys ==
    /\ db = InitDb
    /\ resp = NoResp
    /\ reqs = NoReqs
    /\ pkgIn = NoPkg
    /\ pkgOut = Pending
    /\ users = {}
    /\ regs = NoRegs
    /\ tok = NoTok
    /\ apikeys \in {[NoKeys EXCEPT !.rows = rows] : rows \in SUBSET TableRows}
    /\ gw = NoGw
    /\ ide = NoIde
    /\ tokdb = NoTokens

NextKeys ==
    \/ \E c \in Callers, name \in KeyNames : CreateApiKeyEndpoint(c, name)
    \/ \E c \in Callers : GetApiKeysEndpoint(c)
    \/ \E c \in Callers, key_id \in RowIds : GetApiKeyEndpoint(c, key_id)
    \/ \E c \in Callers, key_id \in RowIds : UpdateApiKeyEndpoint(c, key_id)
    \/ \E row \in apikeys.rows : MaskKeyDict(row)
    \/ \E c \in Callers, name \in KeyNames, r \in RandomParts : create_api_key(c, name, r)
    \/ \E c \in Callers : get_api_keys(c)
    \/ \E c \in Callers, key_id \in 1..MaxKeys : get_api_key(c, key_id)
    \/ \E c \in Callers, key_id \in 1..MaxKeys : revoke_api_key(c, key_id)

SpecKeys == InitKeys /\ [][NextKeys]_vars

\* ------------------------------------------------------------------------
\* The API gateway (api_gateway/main.py) and the routes of the four backends
\* it forwards to (the main.py of each).  A path is the sequence of its
\* segments; Param stands for a path parameter.

Param == "{}"

Route(method, path) == [method |-> method, path |-> path]

\* One forwarding route of the gateway: its method and path, whether it
\* depends on verify_token, and the service URL and path it hands to
\* forward_request.
Forward(method, path, protected, service, to) ==
    [method |-> method, path |-> path, protected |-> protected, service |-> service, to |-> to]

GatewayTable ==
    {Forward("POST", <<"auth", "register">>, FALSE, "AUTH_SERVICE_URL", <<"register">>),
     Forward("POST", <<"auth", "token">>, FALSE, "AUTH_SERVICE_URL", <<"token">>),
     Forward("GET", <<"auth", "users", "me">>, TRUE, "AUTH_SERVICE_URL", <<"users", "me">>),
     Forward("POST", <<"projects">>, TRUE, "PROJECT_SERVICE_URL", <<"projects">>),
     Forward("GET", <<"projects", Param>>, TRUE, "PROJECT_SERVICE_URL", <<"projects", Param>>),
     Forward("GET", <<"projects", "user", Param>>, TRUE, "PROJECT_SERVICE_URL",
             <<"projects", "user", Param>>),
     Forward("PUT", <<"projects", Param>>, TRUE, "PROJECT_SERVICE_URL", <<"projects", Param>>),
     Forward("DELETE", <<"projects", Param>>, TRUE, "PROJECT_SERVICE_URL", <<"projects", Param>>),
     Forward("POST", <<"registry">>, TRUE, "REGISTRY_SERVICE_URL", <<"registry">>),
     Forward("GET", <<"registry", Param>>, FALSE, "REGISTRY_SERVICE_URL", <<"registry", Param>>),
     Forward("GET", <<"registry">>, FALSE, "REGISTRY_SERVICE_URL", <<"registry">>),
     Forward("PUT", <<"registry", Param>>, TRUE, "REGISTRY_SERVICE_URL", <<"registry", Param>>),
     Forward("DELETE", <<"registry", Param>>, TRUE, "REGISTRY_SERVICE_URL", <<"registry", Param>>),
     Forward("POST", <<"marketplace">>, TRUE, "MARKETPLACE_SERVICE_URL", <<"marketplace">>),
     Forward("GET", <<"marketplace", Param>>, FALSE, "MARKETPLACE_SERVICE_URL",
             <<"marketplace", Param>>),
     Forward("GET", <<"marketplace">>, FALSE, "MARKETPLACE_SERVICE_URL", <<"marketplace">>),
     Forward("POST", <<"marketplace", Param, "subscribe">>, TRUE, "MARKETPLACE_SERVICE_URL",
             <<"marketplace", Param, "subscribe">>),
     Forward("GET", <<"marketplace", "subscriptions", Param>>, TRUE, "MARKETPLACE_SERVICE_URL",
             <<"marketplace", "subscriptions", Param>>),
     Forward("POST", <<"marketplace", "subscriptions", Param, "cancel">>, TRUE,
             "MARKETPLACE_SERVICE_URL", <<"marketplace", "subscriptions", Param, "cancel">>),
     Forward("POST", <<"marketplace", Param, "rate">>, TRUE, "MARKETPLACE_SERVICE_URL",
             <<"marketplace", Param, "rate">>)}

\* The routes each backend declares.
Exposed(service) ==
    CASE service = "AUTH_SERVICE_URL" ->
           {Route("POST", <<"register">>), Route("POST", <<"token">>),
            Route("GET", <<"users", "me">>), Route("GET", <<"auth", "google", "url">>),
            Route("GET", <<"auth", "google", "callback">>), Route("GET", <<"health">>),
            Route("POST", <<"api-keys">>), Route("GET", <<"api-keys">>),
            Route("GET", <<"api-keys", Param>>), Route("DELETE", <<"api-keys", Param>>),
            Route("GET", <<"api-keys", "usage", "stats">>)}
      [] service = "PROJECT_SERVICE_URL" ->
           {Route("POST", <<"projects">>), Route("GET", <<"projects", Param>>),
            Route("GET", <<"projects">>), Route("PUT", <<"projects", Param>>),
            Route("DELETE", <<"projects", Param>>), Route("POST", <<"projects", Param, "files">>)}
      [] service = "REGISTRY_SERVICE_URL" ->
           {Route("POST", <<"registry">>), Route("GET", <<"registry", Param>>),
            Route("GET", <<"registry">>), Route("PUT", <<"registry", Param>>),
            Route("DELETE", <<"registry", Param>>), Route("GET", <<"registry", "search">>),
            Route("GET", <<"registry", Param, "versions">>)}
      [] service = "MARKETPLACE_SERVICE_URL" ->
           {Route("POST", <<"offerings">>), Route("GET", <<"offerings", Param>>),
            Route("GET", <<"offerings">>), Route("PUT", <<"offerings", Param>>),
            Route("DELETE", <<"offerings", Param>>),
            Route("POST", <<"offerings", Param, "subscribe">>),
            Route("POST", <<"offerings", Param, "rate">>),
            Route("GET", <<"offerings", "search">>)}

\* The values a path parameter takes in the requests.
PathIds == {"1", "2"}

\* f"/projects/{project_id}": the path with the parameter's value in place.
Fill(path, id) == [i \in 1..Len(path) |-> IF path[i] = Param THEN id ELSE path[i]]

\* The framework's route matching: same number of segments, each equal to the
\* pattern's or standing for a parameter.
Matches(pattern, path) ==
    /\ Len(pattern) = Len(path)
    /\ \A i \in 1..Len(path) : pattern[i] = Param \/ pattern[i] = path[i]

\* The backend has a route for the method and path.
IsExposed(service, method, path) ==
    \E r \in Exposed(service) : r.method = method /\ Matches(r.path, path)

\* What the backend answers when it is reached: one of its handler's
\* statuses on a route it has; on a path it has not, the framework's 404
\* (405 when the path exists under another method).
BackendAnswers(service, method, path) ==
    IF IsExposed(service, method, path) THEN {200, 400, 404}
    ELSE IF \E r \in Exposed(service) : Matches(r.path, path) THEN {405}
    ELSE {404}

\* No answer of the backend.
Unreachable == 0

GwTokens == {NoToken, Malformed, Bearer(TRUE, SECRET_KEY, FALSE, "alice")}

GwAnswer(r, path, t, accepted, to, backend, status) ==
    [route |-> r.path, method |-> r.method, path |-> path, token |-> t,
     accepted |-> accepted, service |-> r.service, to |-> to,
     backend |-> backend, status |-> status]

\* forward_request: the backend's JSON and status, or a 500 when the call
\* raises.
forward_request(backend) == IF backend = Unreachable THEN 500 ELSE backend

\* A request to a forwarding route of the gateway: verify_token where the
\* route depends on it, then forward_request.
GatewayForward(r, id, t) ==
    /\ LET path == Fill(r.path, id)
           to == Fill(r.to, id)
           scheme == oauth2_scheme(t)
           checked == IF ~r.protected THEN Ret("anonymous")
                      ELSE IF scheme.k = "ret" THEN verify_token(t) ELSE scheme
       IN IF checked.k = "ret"
          THEN \E backend \in BackendAnswers(r.service, r.method, to) \cup {Unreachable} :
                 gw' = GwAnswer(r, path, t, TRUE, to, backend, forward_request(backend))
          ELSE gw' = GwAnswer(r, path, t, FALSE, <<>>, Unreachable, checked.status)
    /\ UNCHANGED <<db, resp, reqs, pkgIn, pkgOut, users, regs, tok, apikeys, ide, tokdb>>

NextGw == \E r \in GatewayTable, id \in PathIds, t \in GwTokens : GatewayForward(r, id, t)

SpecGw == Init /\ [][NextGw]_vars

\* ------------------------------------------------------------------------
\* Sessions of the auth router (app/api/endpoints/auth.py).  Its routes
\* depend on get_current_user of app/dependencies/users.py, which decodes
\* the token with python-jose (every failure of its decode is a JWTError)
\* and reads the user row of the sub claim.  tok is the last answer with
\* the tokens a logout has answered 200 for; the service stores none of
\* them.

SessionUsers ==
    {[id |-> "id-alice", username |-> "alice", email |-> "a@x.org"],
     [id |-> "id-bob", username |-> "bob", email |-> "b@x.org"],
     [id |-> "id-carol", username |-> "carol", email |-> "c@x.org"]}

SessionTokens ==
    {NoToken, Malformed, WrongKey, Expired, NoSub,
     Bearer(TRUE, SECRET_KEY, FALSE, "id-alice"), Bearer(TRUE, SECRET_KEY, FALSE, "id-bob"),
     Bearer(TRUE, SECRET_KEY, FALSE, "id-carol"), Bearer(TRUE, SECRET_KEY, FALSE, "id-ghost")}

get_user_by_id(us, user_id) == {u \in us : u.id = user_id}

\* app/dependencies/users.py get_current_user
users_get_current_user(t, us) ==
    LET credentials_exception == Http(401, "Could not validate credentials")
        d == jwt_decode(t, SECRET_KEY)
    IN IF d.k = "raise" THEN credentials_exception
       ELSE IF d.v.sub = NULL THEN credentials_exception
       ELSE IF get_user_by_id(us, d.v.sub) = {} THEN Http(404, "User not found")
       ELSE Ret(d.v.sub)

Session(op, token, status, detail, logged_out) ==
    [op |-> op, token |-> token, status |-> status, detail |-> detail,
     logged_out |-> logged_out]

NoSession == Session("none", NoToken, 0, "", {})

\* Depends(get_current_user): the Authorization header, then the token.
Authenticated(t) ==
    LET scheme == oauth2_scheme(t)
    IN IF scheme.k = "ret" THEN users_get_current_user(t, users) ELSE scheme

\* POST /auth/logout: the body only answers; the blacklist of tokens is a
\* TODO in the code.
Logout(t) ==
    /\ LET current_user == Authenticated(t)
       IN IF current_user.k = "ret"
          THEN tok' = Session("logout", t, 200, "Successfully logged out",
                              tok.logged_out \cup {t})
          ELSE tok' = Session("logout", t, current_user.status, current_user.detail,
                              tok.logged_out)
    /\ UNCHANGED <<db, resp, reqs, pkgIn, pkgOut, users, regs, apikeys, gw, ide, tokdb>>

\* POST /auth/refresh
RefreshToken(t) ==
    /\ LET current_user == Authenticated(t)
       IN IF current_user.k = "ret"
          THEN tok' = Session("refresh_token", t, 200, "", tok.logged_out)
          ELSE tok' = Session("refresh_token", t, current_user.status,
                              current_user.detail, tok.logged_out)
    /\ UNCHANGED <<db, resp, reqs, pkgIn, pkgOut, users, regs, apikeys, gw, ide, tokdb>>

InitSession ==
    /\ db = InitDb
    /\ resp = NoResp
    /\ reqs = NoReqs
    /\ pkgIn = NoPkg
    /\ pkgOut = Pending
    /\ users = SessionUsers
    /\ regs = NoRegs
    /\ tok = NoSession
    /\ apikeys = NoKeys
    /\ gw = NoGw
    /\ ide = NoIde
    /\ tokdb = NoTokens

NextSession ==
    \/ \E t \in SessionTokens : Logout(t)
    \/ \E t \in SessionTokens : RefreshToken(t)

SpecSession == InitSession /\ [][NextSession]_vars

\* ------------------------------------------------------------------------
\* Password reset request (app/api/endpoints/auth.py request_password_reset).
\* resp is the endpoint's last answer: status and JSON body.

Bool(b) == [t |-> "bool", v |-> b]

\* shared/utils/api.py create_response: the keys whose value is None are
\* removed.
create_response(data, message) ==
    LET response == [success |-> Bool(TRUE), message |-> message, data |-> data,
                     errors |-> None, meta |-> None]
    IN [k \in {x \in DOMAIN response : response[x] # None} |-> response[k]]

\* The fields of the auth service's Settings (app/core/config.py).
SettingsFields ==
    {"API_V1_STR", "PROJECT_NAME", "BACKEND_CORS_ORIGINS", "SECRET_KEY", "ALGORITHM",
     "ACCESS_TOKEN_EXPIRE_MINUTES", "DATABASE_URL", "EMAILS_ENABLED", "EMAIL_TEMPLATES_DIR",
     "EMAILS_FROM_NAME", "EMAILS_FROM_EMAIL", "SMTP_HOST", "SMTP_PORT", "SMTP_USER",
     "SMTP_PASSWORD", "GOOGLE_CLIENT_ID", "GOOGLE_CLIENT_SECRET", "GOOGLE_REDIRECT_URI"}

\* The values a deployment would give settings.ENVIRONMENT.
Environments == {"development", "production"}

\* secrets.token_urlsafe(32)
ResetTokens == {"reset-1", "reset-2"}

ResetUsers ==
    {[id |-> "id-alice", username |-> "alice", email |-> "a@x.org"],
     [id |-> "id-bob", username |-> "bob", email |-> "b@x.org"],
     [id |-> "id-carol", username |-> "carol", email |-> "c@x.org"],
     [id |-> "id-dave", username |-> "dave", email |-> "d@x.org"]}

ResetEmails == {u.email : u \in ResetUsers} \cup {"nobody@x.org", "other@x.org"}

ResetMessage == "If your email is registered, you will receive a password reset link"

HttpAnswer(status, body) == [status |-> status, body |-> body]

\* The answer of request_password_reset: an attribute the settings object
\* lacks is an AttributeError, which the framework answers with a 500.
request_password_reset(us, email, reset_token, environment) ==
    IF get_user_by_email(us, email) = {}
    THEN HttpAnswer(200, create_response(None, Str(ResetMessage)))
    ELSE IF "ENVIRONMENT" \notin SettingsFields
    THEN HttpAnswer(500, [detail |-> Str("Internal Server Error")])
    ELSE IF environment = "development"
    THEN HttpAnswer(200, [reset_token |-> Str(reset_token),
                          message |-> Str("Password reset requested. In production, an email would be sent.")])
    ELSE HttpAnswer(200, [message |-> Str(ResetMessage)])

\* POST /auth/reset-password
RequestPasswordReset(email, reset_token, environment) ==
    /\ LET answer == request_password_reset(users, email, reset_token, environment)
       IN resp' = [op |-> "request_password_reset", email |-> email,
                   status |-> answer.status, body |-> answer.body]
    /\ UNCHANGED <<db, reqs, pkgIn, pkgOut, users, regs, tok, apikeys, gw, ide, tokdb>>

InitReset ==
    /\ db = InitDb
    /\ resp = NoResp
    /\ reqs = NoReqs
    /\ pkgIn = NoPkg
    /\ pkgOut = Pending
    /\ users \in SUBSET ResetUsers
    /\ regs = NoRegs
    /\ tok = NoTok
    /\ apikeys = NoKeys
    /\ gw = NoGw
    /\ ide = NoIde
    /\ tokdb = NoTokens

NextReset ==
    \E email \in ResetEmails, reset_token \in ResetTokens, environment \in Environments :
        RequestPasswordReset(email, reset_token, environment)

SpecReset == InitReset /\ [][NextReset]_vars

\* ------------------------------------------------------------------------
\* Web IDE service (backend/web_ide/src/main.py).  A datetime is modelled by
\* its date; ide holds the date of datetime.now(), the dicts project_repos
\* and active_sessions (keyed by the order of creation) and the last answer.

MaxIdeProjects == 2
MaxSessions == 2

\* A common year and a leap year.
Years == {2023, 2024}

IsLeap(y) == (y % 4 = 0 /\ y % 100 # 0) \/ y % 400 = 0

DaysInMonth(y, m) ==
    IF m = 2 THEN (IF IsLeap(y) THEN 29 ELSE 28)
    ELSE IF m \in {4, 6, 9, 11} THEN 30
    ELSE 31

Dates ==
    {x \in [year : Years, month : 1..12, day : 1..31] : x.day <= DaysInMonth(x.year, x.month)}

\* datetime.replace(day=day)
replace_day(now, day) ==
    IF day \in 1..DaysInMonth(now.year, now.month)
    THEN Ret([now EXCEPT !.day = day])
    ELSE Raise("ValueError", "day is out of range for month")

\* now + timedelta(hours=24)
PlusOneDay(now) ==
    IF now.day < DaysInMonth(now.year, now.month) THEN [now EXCEPT !.day = @ + 1]
    ELSE IF now.month < 12 THEN [now EXCEPT !.month = @ + 1, !.day = 1]
    ELSE [year |-> now.year + 1, month |-> 1, day |-> 1]

IdeNames == {"Bell State", "grover"}
GithubRepos == {NULL, "me/repo"}

\* project_name.lower().replace(' ', '-')
Slug(project_name) == IF project_name = "Bell State" THEN "bell-state" ELSE project_name

\* create_project_repository: the id of the new project and project_repos with it
create_project_repository(project_repos, project_name, github_repo) ==
    LET repo_url == IF github_repo # NULL THEN github_repo
                    ELSE "quantum-labs/" \o Slug(project_name)
    IN [project_id |-> Len(project_repos) + 1, project_repos |-> Append(project_repos, repo_url)]

\* start_ide_session: the new session, or what building it raises
start_ide_session(active_sessions, project_id, now) ==
    LET expires_at == replace_day(now, now.day + 1)
    IN IF expires_at.k = "raise" THEN expires_at
       ELSE Ret([session_id |-> Len(active_sessions) + 1, project_id |-> project_id,
                 created_at |-> now, expires_at |-> expires_at.v])

IdeOut(op, status, detail) == [op |-> op, status |-> status, detail |-> detail]

\* POST /projects
WebIdeCreateProject(project_name, github_repo) ==
    /\ Len(ide.project_repos) < MaxIdeProjects
    /\ Len(ide.active_sessions) < MaxSessions
    /\ LET created == create_project_repository(ide.project_repos, project_name, github_repo)
           session_info == start_ide_session(ide.active_sessions, created.project_id, ide.today)
       IN IF session_info.k = "raise"
          THEN ide' = [ide EXCEPT !.project_repos = created.project_repos,
                                  !.out = IdeOut("create_project", 500,
                                                 "Failed to create project: " \o session_info.msg)]
          ELSE ide' = [ide EXCEPT !.project_repos = created.project_repos,
                                  !.active_sessions = Append(@, session_info.v),
                                  !.out = IdeOut("create_project", 200, "active")]
    /\ UNCHANGED <<db, resp, reqs, pkgIn, pkgOut, users, regs, tok, apikeys, gw, tokdb>>

\* POST /projects/open
WebIdeOpenProject(project_id) ==
    /\ Len(ide.active_sessions) < MaxSessions
    /\ IF project_id \notin DOMAIN ide.project_repos
       THEN ide' = [ide EXCEPT !.out = IdeOut("open_project", 404, "Project not found")]
       ELSE LET session_info == start_ide_session(ide.active_sessions, project_id, ide.today)
            IN IF session_info.k = "raise"
               THEN ide' = [ide EXCEPT !.out = IdeOut("open_project", 500,
                                                      "Failed to open project: " \o session_info.msg)]
               ELSE ide' = [ide EXCEPT !.active_sessions = Append(@, session_info.v),
                                       !.out = IdeOut("open_project", 200, "active")]
    /\ UNCHANGED <<db, resp, reqs, pkgIn, pkgOut, users, regs, tok, apikeys, gw, tokdb>>

InitIde ==
    /\ db = InitDb
    /\ resp = NoResp
    /\ reqs = NoReqs
    /\ pkgIn = NoPkg
    /\ pkgOut = Pending
    /\ users = {}
    /\ regs = NoRegs
    /\ tok = NoTok
    /\ apikeys = NoKeys
    /\ gw = NoGw
    /\ \E today \in Dates :
         ide = [today |-> today, project_repos |-> <<>>, active_sessions |-> <<>>,
                out |-> IdeOut("none", 0, "")]
    /\ tokdb = NoTokens

NextIde ==
    \/ \E project_name \in IdeNames, github_repo \in GithubRepos :
         WebIdeCreateProject(project_name, github_repo)
    \/ \E project_id \in 1..MaxIdeProjects : WebIdeOpenProject(project_id)

SpecIde == InitIde /\ [][NextIde]_vars

\* ------------------------------------------------------------------------
\* The version endpoints of the app service (quantum_apps.py): the detail of
\* a version and the download of its package.  Their answer names the app
\* and the version of the URL and carries the content that was sent.

\* get_app_package: (package_data, filename), or None
get_app_package(d, version_id) ==
    IF version_id \notin DOMAIN d.versions THEN [k |-> "none"]
    ELSE IF d.versions[version_id].package_data = NULL THEN [k |-> "none"]
    ELSE Ret([content |-> d.versions[version_id].package_data,
              filename |-> IF d.versions[version_id].package_path = NULL
                           THEN "package.zip" ELSE d.versions[version_id].package_path])

VersionResponse(op, status, message, app_id, version_id, content) ==
    [op |-> op, status |-> status, message |-> message, id |-> version_id,
     app_id |-> app_id, content |-> content]

\* GET /{app_id}/versions/{version_id} (get_app_version_endpoint)
GetAppVersion(c, app_id, version_id) ==
    /\ db' = db
    /\ IF app_id \notin DOMAIN db.apps
       THEN resp' = VersionResponse("get_app_version", 404, <<"Quantum app not found">>,
                                    app_id, version_id, NULL)
       ELSE IF version_id \notin DOMAIN db.versions
       THEN resp' = VersionResponse("get_app_version", 404, <<"App version not found">>,
                                    app_id, version_id, NULL)
       ELSE IF db.versions[version_id].quantum_app_id # app_id
       THEN resp' = VersionResponse("get_app_version", 404, <<"App version not found">>,
                                    app_id, version_id, NULL)
       ELSE resp' = VersionResponse("get_app_version", 200,
                                    <<"App version retrieved successfully">>,
                                    app_id, version_id, NULL)
    /\ UNCHANGED <<reqs, pkgIn, pkgOut, users, regs, tok, apikeys, gw, ide, tokdb>>

\* GET /{app_id}/versions/{version_id}/download (download_package_endpoint)
DownloadPackage(c, app_id, version_id) ==
    /\ db' = db
    /\ LET package_data == get_app_package(db, version_id)
       IN IF app_id \notin DOMAIN db.apps
          THEN resp' = VersionResponse("download_package", 404, <<"Quantum app not found">>,
                                       app_id, version_id, NULL)
          ELSE IF package_data.k = "none"
          THEN resp' = VersionResponse("download_package", 404, <<"Package not found">>,
                                       app_id, version_id, NULL)
          ELSE resp' = VersionResponse("download_package", 200, <<package_data.v.filename>>,
                                       app_id, version_id, package_data.v.content)
    /\ UNCHANGED <<reqs, pkgIn, pkgOut, users, regs, tok, apikeys, gw, ide, tokdb>>

NextVersions ==
    \/ Next
    \/ \E c \in Callers, a \in 1..MaxApps, v \in 1..MaxVersions : GetAppVersion(c, a, v)
    \/ \E c \in Callers, a \in 1..MaxApps, v \in 1..MaxVersions : DownloadPackage(c, a, v)

SpecVersions == Init /\ [][NextVersions]_vars

\* The requests on one project: create, get, update, delete and release.
NextOwner ==
    \/ \E c \in Callers, pd \in ProjectInputs : CreateProject(c, pd)
    \/ \E c \in Callers, p \in 1..MaxProjects : GetProject(c, p)
    \/ \E c \in Callers, p \in 1..MaxProjects, ud \in ProjectUpdateInputs : UpdateProject(c, p, ud)
    \/ \E c \in Callers, p \in 1..MaxProjects : DeleteProject(c, p)
    \/ \E c \in Callers, p \in 1..MaxProjects, rd \in ReleaseInputs : ReleaseProject(c, p, rd)

SpecOwner == Init /\ [][NextOwner]_vars

\* DELETE /api-keys/{key_id} (delete_api_key_endpoint): delete_api_key(db,
\* api_key_id) is called with three arguments; the TypeError leaves as a 500
\* and no row is deleted.
DeleteApiKeyEndpoint(c, key_id) ==
    /\ apikeys' = [apikeys EXCEPT !.out = KeyOut("delete_api_key_endpoint", 500, {})]
    /\ UNCHANGED <<db, resp, reqs, pkgIn, pkgOut, users, regs, tok, gw, ide, tokdb>>

NextKeyRequests ==
    \/ NextKeys
    \/ \E c \in Callers, key_id \in RowIds : DeleteApiKeyEndpoint(c, key_id)

SpecKeyRequests == InitKeys /\ [][NextKeyRequests]_vars

\* ------------------------------------------------------------------------
\* The token repository of the auth service (app/repositories/token.py) over
\* the tables refresh_tokens and password_resets, whose token column is
\* UNIQUE.  Time is counted in steps of the clock; tokdb holds the clock
\* (datetime.utcnow()), the two tables, the tokens a revocation (a marking
\* as used) has succeeded for, and the last call with its result.

MaxTime == 2
MaxLifetime == 1

\* generate_token()
TokenValues == {"tokA", "tokB"}

TokenOut(op, token, result) == [op |-> op, token |-> token, result |-> result]

\* get_refresh_token / get_password_reset_token: the rows with the token
get_token(rows, token) == {row \in rows : row.token = token}

\* create_refresh_token: the INSERT; a token the table holds already violates
\* the UNIQUE constraint and nothing is inserted
create_refresh_token(rows, user_id, token, now, expires_minutes) ==
    IF get_token(rows, token) # {} THEN rows
    ELSE rows \cup {[token |-> token, user_id |-> user_id,
                     expires_at |-> now + expires_minutes, is_revoked |-> FALSE]}

\* revoke_refresh_token: UPDATE ... SET is_revoked = true WHERE token = :token
revoke_refresh_token(rows, token) ==
    {IF row.token = token THEN [row EXCEPT !.is_revoked = TRUE] ELSE row : row \in rows}

is_refresh_token_valid_mut_ignore_revoked(rows, token, now) ==
    \E row \in get_token(rows, token) : ~(row.expires_at < now)

\* is_refresh_token_valid
is_refresh_token_valid(rows, token, now) ==
    \E row \in get_token(rows, token) :
        /\ ~row.is_revoked
        /\ ~(row.expires_at < now)

\* create_password_reset_token
create_password_reset_token(rows, user_id, token, now, expires_minutes) ==
    IF get_token(rows, token) # {} THEN rows
    ELSE rows \cup {[token |-> token, user_id |-> user_id,
                     expires_at |-> now + expires_minutes, is_used |-> FALSE]}

\* mark_password_reset_token_used: UPDATE ... SET is_used = true WHERE token = :token
mark_password_reset_token_used(rows, token) ==
    {IF row.token = token THEN [row EXCEPT !.is_used = TRUE] ELSE row : row \in rows}

\* is_password_reset_token_valid
is_password_reset_token_valid(rows, token, now) ==
    \E row \in get_token(rows, token) :
        /\ ~row.is_used
        /\ ~(row.expires_at < now)

CreateRefreshToken(user_id, token, expires_minutes) ==
    /\ tokdb' = [tokdb EXCEPT
         !.refresh_tokens = create_refresh_token(@, user_id, token, tokdb.now, expires_minutes),
         !.out = TokenOut("create_refresh_token", token,
                          get_token(tokdb.refresh_tokens, token) = {})]
    /\ UNCHANGED <<db, resp, reqs, pkgIn, pkgOut, users, regs, tok, apikeys, gw, ide>>

RevokeRefreshToken(token) ==
    /\ LET rowcount == Cardinality(get_token(tokdb.refresh_tokens, token))
       IN tokdb' = [tokdb EXCEPT
            !.refresh_tokens = revoke_refresh_token(@, token),
            !.revoked = IF rowcount > 0 THEN @ \cup {token} ELSE @,
            !.out = TokenOut("revoke_refresh_token", token, rowcount > 0)]
    /\ UNCHANGED <<db, resp, reqs, pkgIn, pkgOut, users, regs, tok, apikeys, gw, ide>>

IsRefreshTokenValid(token) ==
    /\ tokdb' = [tokdb EXCEPT
         !.out = TokenOut("is_refresh_token_valid", token,
                          is_refresh_token_valid(tokdb.refresh_tokens, token, tokdb.now))]
    /\ UNCHANGED <<db, resp, reqs, pkgIn, pkgOut, users, regs, tok, apikeys, gw, ide>>

CreatePasswordResetToken(user_id, token, expires_minutes) ==
    /\ tokdb' = [tokdb EXCEPT
         !.password_resets = create_password_reset_token(@, user_id, token, tokdb.now,
                                                         expires_minutes),
         !.out = TokenOut("create_password_reset_token", token,
                          get_token(tokdb.password_resets, token) = {})]
    /\ UNCHANGED <<db, resp, reqs, pkgIn, pkgOut, users, regs, tok, apikeys, gw, ide>>

MarkPasswordResetTokenUsed(token) ==
    /\ LET rowcount == Cardinality(get_token(tokdb.password_resets, token))
       IN tokdb' = [tokdb EXCEPT
            !.password_resets = mark_password_reset_token_used(@, token),
            !.used = IF rowcount > 0 THEN @ \cup {token} ELSE @,
            !.out = TokenOut("mark_password_reset_token_used", token, rowcount > 0)]
    /\ UNCHANGED <<db, resp, reqs, pkgIn, pkgOut, users, regs, tok, apikeys, gw, ide>>

IsPasswordResetTokenValid(token) ==
    /\ tokdb' = [tokdb EXCEPT
         !.out = TokenOut("is_password_reset_token_valid", token,
                          is_password_reset_token_valid(tokdb.password_resets, token, tokdb.now))]
    /\ UNCHANGED <<db, resp, reqs, pkgIn, pkgOut, users, regs, tok, apikeys, gw, ide>>

\* The clock advances.
TickClock ==
    /\ tokdb.now < MaxTime
    /\ tokdb' = [tokdb EXCEPT !.now = @ + 1]
    /\ UNCHANGED <<db, resp, reqs, pkgIn, pkgOut, users, regs, tok, apikeys, gw, ide>>

InitTokens ==
    /\ db = InitDb
    /\ resp = NoResp
    /\ reqs = NoReqs
    /\ pkgIn = NoPkg
    /\ pkgOut = Pending
    /\ users = {}
    /\ regs = NoRegs
    /\ tok = NoTok
    /\ apikeys = NoKeys
    /\ gw = NoGw
    /\ ide = NoIde
    /\ tokdb = [now |-> 0, refresh_tokens |-> {}, password_resets |-> {},
                revoked |-> {}, used |-> {}, out |-> TokenOut("none", "", FALSE)]

NextTokens ==
    \/ \E token \in TokenValues, m \in 1..MaxLifetime : CreateRefreshToken("u1", token, m)
    \/ \E token \in TokenValues : RevokeRefreshToken(token)
    \/ \E token \in TokenValues : IsRefreshTokenValid(token)
    \/ \E token \in TokenValues, m \in 1..MaxLifetime : CreatePasswordResetToken("u1", token, m)
    \/ \E token \in TokenValues : MarkPasswordResetTokenUsed(token)
    \/ \E token \in TokenValues : IsPasswordResetTokenValid(token)
    \/ TickClock

SpecTokens == InitTokens /\ [][NextTokens]_vars

\* ------------------------------------------------------------------------
\* The in-memory key store with its clock (api_key_service.py): api_keys_db
\* as the set of the stored key dicts, api_usage_db as the request count of
\* each key string, the key strings a revoke has returned True for, and the
\* last call with its result.  A new key's random part is one no stored key
\* has.

MaxValidations == 1

\* key_data.expires_at: None or an instant
Expiries == {None, Num(1)}

StoreOut(op, user_id, arg, result) ==
    [op |-> op, user_id |-> user_id, arg |-> arg, result |-> result]

\* `key_data["expires_at"] and datetime.utcnow() > key_data["expires_at"]`
key_expired(key_data, now) == key_data.expires_at # None /\ now > key_data.expires_at.v

validate_api_key_mut_ignore_active(store, api_key, now) ==
    LET hits == {key_data \in store : key_data.key = api_key}
    IN IF hits = {} THEN NULL
       ELSE LET key_data == CHOOSE k \in hits : TRUE
            IN IF key_expired(key_data, now) THEN NULL ELSE key_data.user_id

\* validate_api_key: the user id of the first active key with the string,
\* None if it has expired or if there is none
validate_api_key(store, api_key, now) ==
    LET hits == {key_data \in store : key_data.key = api_key /\ key_data.is_active}
    IN IF hits = {} THEN NULL
       ELSE LET key_data == CHOOSE k \in hits : TRUE
            IN IF key_expired(key_data, now) THEN NULL ELSE key_data.user_id

\* create_api_key
CreateApiKey(user_id, name, random_part, expires_at) ==
    /\ apikeys.next <= MaxKeys
    /\ LET api_key == [id |-> apikeys.next, user_id |-> user_id, name |-> name,
                       key |-> generate_api_key(key_prefix(name), random_part),
                       expires_at |-> expires_at, is_active |-> TRUE]
       IN /\ \A key_data \in apikeys.store : key_data.key # api_key.key
          /\ apikeys' = [apikeys EXCEPT
               !.store = @ \cup {api_key},
               !.next = @ + 1,
               !.usage = Put(@, api_key.key, 0),
               !.out = StoreOut("create_api_key", user_id, api_key.key, TRUE)]
    /\ UNCHANGED <<db, resp, reqs, pkgIn, pkgOut, users, regs, tok, gw, ide, tokdb>>

\* revoke_api_key: only the keys of user_id are searched
RevokeApiKey(user_id, key_id) ==
    /\ LET found == {key_data \in apikeys.store :
                       key_data.user_id = user_id /\ key_data.id = key_id}
       IN apikeys' = [apikeys EXCEPT
            !.store = {IF key_data \in found THEN [key_data EXCEPT !.is_active = FALSE]
                       ELSE key_data : key_data \in @},
            !.revoked = @ \cup {key_data.key : key_data \in found},
            !.out = StoreOut("revoke_api_key", user_id, key_id, found # {})]
    /\ UNCHANGED <<db, resp, reqs, pkgIn, pkgOut, users, regs, tok, gw, ide, tokdb>>

\* validate_api_key, with the request it counts
ValidateApiKey(api_key) ==
    /\ LET user_id == validate_api_key(apikeys.store, api_key, apikeys.now)
       IN IF user_id = NULL
          THEN apikeys' = [apikeys EXCEPT
                 !.out = StoreOut("validate_api_key", NULL, api_key, NULL)]
          ELSE /\ apikeys.usage[api_key] < MaxValidations
               /\ apikeys' = [apikeys EXCEPT
                    !.usage[api_key] = @ + 1,
                    !.out = StoreOut("validate_api_key", NULL, api_key, user_id)]
    /\ UNCHANGED <<db, resp, reqs, pkgIn, pkgOut, users, regs, tok, gw, ide, tokdb>>

\* datetime.utcnow() advances
TickStore ==
    /\ apikeys.now < MaxTime
    /\ apikeys' = [apikeys EXCEPT !.now = @ + 1]
    /\ UNCHANGED <<db, resp, reqs, pkgIn, pkgOut, users, regs, tok, gw, ide, tokdb>>

\* The key strings create_api_key can make.
KeyStrings == {generate_api_key(key_prefix("My key"), r) : r \in RandomParts}

InitStore ==
    /\ db = InitDb
    /\ resp = NoResp
    /\ reqs = NoReqs
    /\ pkgIn = NoPkg
    /\ pkgOut = Pending
    /\ users = {}
    /\ regs = NoRegs
    /\ tok = NoTok
    /\ apikeys = [store |-> {}, next |-> 1, usage |-> <<>>, revoked |-> {}, now |-> 0,
                  out |-> StoreOut("none", NULL, NULL, NULL)]
    /\ gw = NoGw
    /\ ide = NoIde
    /\ tokdb = NoTokens

NextStore ==
    \/ \E c \in Callers, r \in RandomParts, e \in Expiries : CreateApiKey(c, "My key", r, e)
    \/ \E c \in Callers, key_id \in 1..MaxKeys : RevokeApiKey(c, key_id)
    \/ \E api_key \in KeyStrings : ValidateApiKey(api_key)
    \/ TickStore

SpecStore == InitStore /\ [][NextStore]_vars

\* ------------------------------------------------------------------------
\* Properties.

Max(S) == CHOOSE x \in S : \A y \in S : y <= x

InMessage(part, r) == \E i \in 1..Len(r.message) : r.message[i] = part

\* C1: every app that has a version has exactly one version flagged
\* is_latest, it is the most recently created version of the app, and the
\* app's latest_version_id refers to it.
C1_OneLatest ==
    \A a \in DOMAIN db.apps :
        LET vs == versions_of(db, a)
        IN vs # {} =>
             /\ {v \in vs : db.versions[v].is_latest} = {Max(vs)}
             /\ db.apps[a].latest_version_id = Max(vs)

\* C1's case: an app with two versions, after an upload.
C1_Witness ==
    /\ resp.op = "upload" /\ resp.status = 200
    /\ \E a \in DOMAIN db.apps : Cardinality(versions_of(db, a)) >= 2

\* What C2 states to be the valid packages.
C2_Stated(pkg) ==
    /\ pkg.is_zip
    /\ pkg.manifest_file.t = "json"
    /\ pkg.manifest_file.v.t = "dict"
    /\ LET m == pkg.manifest_file.v.v
       IN /\ \A k \in RequiredKeys : k \in DOMAIN m /\ m[k].t = "str"
          /\ "application_source_file" \in DOMAIN m
          /\ m["application_source_file"].t = "str"
          /\ m["application_source_file"].v \in pkg.files

\* The archives on which validate_package raises TypeError instead of
\* reporting: a manifest that is a non-empty JSON value other than an object,
\* or, with no string entry point, a qasm_files entry of the manifest that
\* cannot be iterated or holds an unhashable element.
C2_Raises(pkg) ==
    /\ pkg.is_zip
    /\ pkg.manifest_file.t = "json"
    /\ Truthy(pkg.manifest_file.v)
    /\ \/ pkg.manifest_file.v.t # "dict"
       \/ LET m == pkg.manifest_file.v.v
          IN /\ "application_source_file" \notin DOMAIN m
                  \/ m["application_source_file"].t # "str"
             /\ "qasm_files" \in DOMAIN m
             /\ m["qasm_files"] \in {Num(1), List(<<List(<<>>)>>)}
             /\ pkg.files \cap pkg.bad_utf8 = {}

\* C2: validate_package reports (True, []) exactly when the
\* archive has the manifest, the manifest has the four required fields and
\* the entry point as strings, and the entry point is a member of the
\* archive; in every other case it reports (False, errors) with errors.
C2_AsStated ==
    pkgOut # Pending =>
        IF C2_Stated(pkgIn)
        THEN pkgOut.k = "ret" /\ pkgOut.valid /\ pkgOut.errors = <<>>
        ELSE pkgOut.k = "ret" /\ ~pkgOut.valid /\ pkgOut.errors # <<>>

\* What validate_package does on every archive: it reports (True, []) exactly
\* when, beyond C2_Stated, the entry point's name ends in .qasm and every
\* .qasm member of the archive is UTF-8; it raises TypeError on the archives
\* of C2_Raises; in every other case it reports (False, errors) with errors.
C2_ValidExactly ==
    pkgOut # Pending =>
        IF C2_Raises(pkgIn) THEN pkgOut.k = "raise" /\ pkgOut.e = "TypeError"
        ELSE IF /\ C2_Stated(pkgIn)
                /\ EndsWithQasm(pkgIn.manifest_file.v.v["application_source_file"].v)
                /\ pkgIn.files \cap pkgIn.bad_utf8 = {}
        THEN pkgOut.k = "ret" /\ pkgOut.valid /\ pkgOut.errors = <<>>
        ELSE pkgOut.k = "ret" /\ ~pkgOut.valid /\ pkgOut.errors # <<>>

\* A package with every property of C2_Stated has been found valid.
C2_FoundValid ==
    /\ C2_Stated(pkgIn)
    /\ pkgOut.k = "ret" /\ pkgOut.valid

C6_ReleaseAddsVersion ==
    [][\A c \in Callers, p \in 1..MaxProjects, rd \in ReleaseInputs :
          (/\ get_project_ok(db, c, p)
           /\ db.projects[p].quantum_app_id # NullId
           /\ ReleaseProject(c, p, rd))
          => LET app == db.projects[p].quantum_app_id
             IN /\ DOMAIN db'.apps = DOMAIN db.apps
                /\ db'.projects[p].quantum_app_id = app
                /\ Cardinality(versions_of(db', app))
                     = Cardinality(versions_of(db, app)) + 1]_vars

\* C7: the fields of a version other than is_latest never change while the
\* version exists.
C7_VersionImmutable ==
    [][\A v \in DOMAIN db.versions \cap DOMAIN db'.versions :
          [db'.versions[v] EXCEPT !.is_latest = TRUE]
            = [db.versions[v] EXCEPT !.is_latest = TRUE]]_vars

\* C7's case: a version that a newer version of its app has superseded, after
\* an update of an app.
C7_Witness ==
    /\ resp.op = "update_app" /\ resp.status = 200
    /\ \E v \in DOMAIN db.versions : ~db.versions[v].is_latest

\* The whole of a request's database work, from the state it starts in.
WholeRequest(d, r) ==
    IF r.op = "release"
    THEN release_project(d, r.c, r.project_id, r.data, NULL)
    ELSE upload_write(d, r.c, upload_app_data(Validated[r.data].manifest.v),
                      upload_version_data(Validated[r.data].manifest.v, r.data),
                      r.data, r.app)

\* C8: the writes of a release or upload request take effect as a single
\* step (a commit of the request that changes the database applies the whole
\* of the request's work and ends it), and a request that fails leaves none of
\* its writes: neither the app nor the version it inserted is in the database.
C8_SingleStep ==
    [][\A i \in 1..Len(reqs) :
          /\ ((ReleaseCommit(i) \/ UploadCommit(i)) /\ db' # db)
                => /\ reqs'[i].pc = "done"
                   /\ db' = WholeRequest(db, reqs[i])
          /\ (reqs[i].pc # "failed" /\ reqs'[i].pc = "failed")
                => /\ reqs'[i].app \notin DOMAIN db'.apps
                   /\ reqs'[i].ver \notin DOMAIN db'.versions]_vars

\* C8's case in the code: a release has failed at its last commit and has
\* left the app and the version it inserted.
C8_PartialFailure ==
    \E i \in 1..Len(reqs) :
        /\ reqs[i].op = "release" /\ reqs[i].pc = "failed"
        /\ reqs[i].app \in DOMAIN db.apps
        /\ reqs[i].ver \in DOMAIN db.versions

\* C8's case in the code: another request's read falls between the commits
\* of an upload, on a version that no app's latest_version_id refers to yet.
C8_PartialVisible ==
    \E i \in 1..Len(reqs) :
        /\ reqs[i].op = "upload" /\ reqs[i].pc \in {"clear_previous", "set_latest"}
        /\ reqs[i].ver \in DOMAIN db.versions
        /\ db.apps[reqs[i].app].latest_version_id # reqs[i].ver

\* A registration's username or email is in the user table.
Taken(us, r) ==
    get_user_by_username(us, r.username) # {} \/ get_user_by_email(us, r.email) # {}

\* C9: no two users share a username or an email, and a registration that
\* ends while its username or email is taken, concurrent registrations
\* included, is answered with status 400 and creates no user.
C9_UniqueAndRejected ==
    [][/\ \A u1, u2 \in users' :
             u1 # u2 => u1.username # u2.username /\ u1.email # u2.email
       /\ \A i \in 1..Len(regs) :
             (RegisterStep(i) /\ regs'[i].status # 0 /\ Taken(users, regs[i]))
               => regs'[i].status = 400 /\ users' = users]_vars

\* The tokens C10 is about.
BadTokens == {NoToken, Malformed, WrongKey, Expired}

\* C10: a request to a protected endpoint with a missing, malformed, wrongly
\* signed or expired bearer token is answered with status 401, and nothing is
\* performed or forwarded to a backend.
C10_BadTokenRejected ==
    [][\A t \in BadTokens :
          ((\E route \in GatewayRoutes : GatewayRequest(route, t))
             \/ ReadUsersMe(t) \/ GetQuantumApps(t))
          => /\ tok'.status = 401
             /\ tok'.forwarded = tok.forwarded
             /\ tok'.performed = tok.performed]_vars

\* msg is one of the errors.
InErrors(msg, errors) == \E i \in 1..Len(errors) : errors[i] = msg

\* The .qasm filenames a manifest references: its application_source_file and
\* the entries of its qasm_files list.
Referenced(m) ==
    (IF "application_source_file" \in DOMAIN m /\ m["application_source_file"].t = "str"
     THEN {m["application_source_file"].v} ELSE {})
    \cup (IF "qasm_files" \in DOMAIN m /\ m["qasm_files"].t = "list"
          THEN {m["qasm_files"].v[i].v :
                  i \in {j \in 1..Len(m["qasm_files"].v) : m["qasm_files"].v[j].t = "str"}}
          ELSE {})

\* C11: for every .qasm filename that the manifest references and the
\* archive lacks, validate_package reports the package invalid with the error
\* 'Specified QASM file not found in package: <file>'.
C11_ReferencedFilesPresent ==
    (pkgOut # Pending /\ pkgIn.manifest_file.t = "json" /\ pkgIn.manifest_file.v.t = "dict")
    => \A f \in Referenced(pkgIn.manifest_file.v.v) \ pkgIn.files :
          /\ pkgOut.k = "ret" /\ ~pkgOut.valid
          /\ InErrors("Specified QASM file not found in package: " \o f, pkgOut.errors)

\* C11's case in the code: a package found valid although an entry of its
\* manifest's qasm_files list is not in the archive.
C11_ListedFileIgnored ==
    /\ pkgOut.k = "ret" /\ pkgOut.valid
    /\ Referenced(pkgIn.manifest_file.v.v) \ pkgIn.files # {}

\* C13: the manifest validate_package returns is the JSON content of
\* quantum_manifest.json, no key added, removed or changed, when the package
\* is valid and when it is invalid for having no .qasm file.
C13_ManifestUnmodified ==
    (/\ pkgOut # Pending /\ pkgOut.k = "ret"
     /\ pkgOut.valid \/ InErrors("No .qasm files found in package", pkgOut.errors))
    => pkgOut.manifest = pkgIn.manifest_file.v

\* C14: validate_package returns None as the manifest whenever it reports the
\* package invalid.
C14_ManifestOnlyWhenValid ==
    (pkgOut # Pending /\ pkgOut.k = "ret" /\ ~pkgOut.valid) => pkgOut.manifest = None

\* C12: a manifest with name, type, version_number and sdk_used as strings is
\* valid with no error, and a manifest that lacks one of them is invalid with
\* the error 'Missing required field: <field>' for it.
C12_RequiredFields ==
    pkgOut # Pending =>
        LET required == {"name", "type", "version_number", "sdk_used"}
        IN /\ (\A f \in required : f \in DOMAIN pkgIn /\ pkgIn[f].t = "str")
                => pkgOut.ok /\ pkgOut.errors = <<>>
           /\ \A f \in required :
                f \notin DOMAIN pkgIn
                  => ~pkgOut.ok /\ InErrors("Missing required field: " \o f, pkgOut.errors)

\* C12's case in the code: the manifest of test_validate_manifest_valid, the
\* four fields under the names name, type, version_number and sdk_used, is
\* found invalid.
C12_TargetNamesRejected ==
    /\ pkgOut # Pending /\ ~pkgOut.ok
    /\ DOMAIN pkgIn = {"name", "type", "version_number", "sdk_used"}

\* The manifest's entry for a field, under the field's name or under the name
\* the manifest file uses for it.
Entry(m, field) ==
    IF field \in DOMAIN m THEN m[field] ELSE Get(m, original_field(field))

\* C15: the app and version an upload creates store the manifest's name,
\* description, type and visibility, and its version_number, sdk_used,
\* preferred_platform, preferred_device_id and number_of_qubits, unchanged.
C15_ManifestValuesStored ==
    [][\A c \in Callers, key \in UploadKeys :
          (Validated[key].k = "ret" /\ Validated[key].valid /\ UploadAppPackage(c, key))
          => LET m == Bytes(key).manifest_file.v.v
                 app == db'.apps[resp'.id]
                 version == db'.versions[db'.apps[resp'.id].latest_version_id]
             IN /\ app.name = Col(Entry(m, "name"))
                /\ app.description = Col(Entry(m, "description"))
                /\ app.type = Col(Entry(m, "type"))
                /\ app.visibility = Col(Entry(m, "visibility"))
                /\ version.version_number = Col(Entry(m, "version_number"))
                /\ version.sdk_used = Col(Entry(m, "sdk_used"))
                /\ version.preferred_platform = Col(Entry(m, "preferred_platform"))
                /\ version.preferred_device_id = Col(Entry(m, "preferred_device_id"))
                /\ version.number_of_qubits = Col(Entry(m, "number_of_qubits"))]_vars

\* What of C15 the code does: the name, the description and the version
\* number are stored as the manifest has them.
C15_NamesStored ==
    [][\A c \in Callers, key \in UploadKeys :
          (Validated[key].k = "ret" /\ Validated[key].valid /\ UploadAppPackage(c, key))
          => LET m == Bytes(key).manifest_file.v.v
                 app == db'.apps[resp'.id]
                 version == db'.versions[db'.apps[resp'.id].latest_version_id]
             IN /\ app.name = Col(Entry(m, "name"))
                /\ app.description = Col(Entry(m, "description"))
                /\ version.version_number = Col(Entry(m, "version_number"))]_vars

\* C16: deleting a project owned by the caller is answered with status 204 and
\* removes the project, and a GET of the id of a project that was created and
\* has been deleted is answered with 404.
C16_DeleteThenGone ==
    [][\A c \in Callers, p \in 1..MaxProjects :
          /\ (get_project_ok(db, c, p) /\ DeleteProject(c, p))
             => resp'.status = 204 /\ p \notin DOMAIN db'.projects
          /\ (p < db.next_proj /\ p \notin DOMAIN db.projects /\ GetProject(c, p))
             => resp'.status = 404]_vars

\* The delete of an owned project is answered 200 and removes the project; a
\* deleted project never returns, and a GET of its id is answered 404.
C16_DeletedStaysGone ==
    [][\A c \in Callers, p \in 1..MaxProjects :
          /\ (get_project_ok(db, c, p) /\ DeleteProject(c, p))
             => resp'.status = 200 /\ p \notin DOMAIN db'.projects
          /\ (p < db.next_proj /\ p \notin DOMAIN db.projects)
             => /\ p \notin DOMAIN db'.projects
                /\ GetProject(c, p) => resp'.status = 404]_vars

\* A GET of a deleted project has been answered.
C16_GetAfterDelete ==
    /\ resp.op = "get_project" /\ resp.status = 404
    /\ \E p \in 1..MaxProjects : p < db.next_proj /\ p \notin DOMAIN db.projects

C18_ReleaseNotFound ==
    [][\A c \in Callers, p \in 1..MaxProjects, rd \in ReleaseInputs :
          (~get_project_ok(db, c, p) /\ ReleaseProject(c, p, rd))
          => /\ resp'.status = 404
             /\ InMessage("Project not found", resp')
             /\ db'.apps = db.apps /\ db'.versions = db.versions]_vars

\* Such a release is answered with an error that names 'Project not found',
\* and no row changes.
C18_NothingCreated ==
    [][\A c \in Callers, p \in 1..MaxProjects, rd \in ReleaseInputs :
          (~get_project_ok(db, c, p) /\ ReleaseProject(c, p, rd))
          => /\ resp'.status = 500
             /\ InMessage("Project not found", resp')
             /\ db' = db]_vars

\* A release of another user's project has been answered.
C18_NotOwnedAnswered ==
    /\ resp.op = "release" /\ resp.status = 500
    /\ \E p \in DOMAIN db.projects : db.projects[p].quantum_app_id = NullId

\* needle occurs in hay.
Contains(hay, needle) ==
    \E i \in 0..(Len(hay) - Len(needle)) : SubSeq(hay, i + 1, i + Len(needle)) = needle

\* The complete API keys there are.
AllKeys == {row.value : row \in apikeys.rows} \cup {k.key : k \in apikeys.store}

\* A key's prefix: the key up to its last "_".
PrefixOf(k) == SubSeq(k, 1, Max({0} \cup {i \in 1..Len(k) : k[i] = "_"}))

KeyResponses ==
    {"get_api_keys_endpoint", "get_api_key_endpoint", "update_api_key_endpoint",
     "get_api_keys", "get_api_key"}

C19_CompleteKeyReturned ==
    /\ apikeys.out.op = "get_api_keys_endpoint"
    /\ \E d \in apikeys.out.data : "value" \in DOMAIN d /\ d["value"] \in AllKeys

\* The endpoints' masking statements have returned a key that holds the whole
\* of the key they were given.
C19_MaskKeepsWholeKey ==
    /\ apikeys.out.op = "masked_key_dict"
    /\ \E d \in apikeys.out.data, k \in AllKeys : Contains(d["key"], k)

\* What api_key_service returns from get_api_keys and get_api_key holds no
\* complete key: it shows a key's first eight and last four characters.
C19_ServiceHidesKey ==
    apikeys.out.op \in {"get_api_keys", "get_api_key"}
    => \A d \in apikeys.out.data :
          /\ \A k \in AllKeys : ~Contains(d["key"], k)
          /\ \E k \in AllKeys : d["key"] = First(k, 8) \o Stars(12) \o Last(k, 4)

\* The backend the gateway's routes select for a URL prefix.
ServiceOfPrefix(prefix) ==
    CASE prefix = "auth" -> "AUTH_SERVICE_URL"
      [] prefix = "projects" -> "PROJECT_SERVICE_URL"
      [] prefix = "registry" -> "REGISTRY_SERVICE_URL"
      [] prefix = "marketplace" -> "MARKETPLACE_SERVICE_URL"

\* C20: every request the gateway accepts is forwarded to the backend its URL
\* prefix selects, at a path this backend has a route for, and the gateway's
\* status is the status the backend answered with.
C20_ForwardedToExposedPath ==
    (gw.route # <<>> /\ gw.accepted)
    => /\ gw.service = ServiceOfPrefix(gw.path[1])
       /\ IsExposed(gw.service, gw.method, gw.to)
       /\ gw.backend # Unreachable => gw.status = gw.backend

\* An accepted request is forwarded to the backend of its prefix, and the
\* status of a backend that answered is passed on.
C20_StatusPassedOn ==
    (gw.route # <<>> /\ gw.accepted)
    => /\ gw.service = ServiceOfPrefix(gw.path[1])
       /\ gw.backend # Unreachable => gw.status = gw.backend

\* POST /marketplace has been forwarded to the marketplace service at
\* /marketplace, which that service has no route for, and answered 404.
C20_MarketplaceNotFound ==
    /\ gw.route = <<"marketplace">> /\ gw.method = "POST" /\ gw.accepted
    /\ ~IsExposed(gw.service, gw.method, gw.to)
    /\ gw.status = 404

\* C21: after a successful logout the bearer token that was used no longer
\* authenticates: every later request presenting it (a logout or a refresh
\* here) is rejected with 401.
C21_LoggedOutTokenRejected ==
    [][\A t \in tok.logged_out : (Logout(t) \/ RefreshToken(t)) => tok'.status = 401]_vars

\* a token is used again after its logout
C21_Witness ==
    /\ tok.op = "refresh_token"
    /\ tok.token \in tok.logged_out
    /\ tok.status = 200

\* C22: the password-reset request does not reveal whether an email is
\* registered: the answer (status and body) for a registered email is the
\* answer for an unregistered one.
C22_ResetAnswersAlike ==
    [][\A email \in ResetEmails, reset_token \in ResetTokens, environment \in Environments :
          (/\ resp.op = "request_password_reset"
           /\ RequestPasswordReset(email, reset_token, environment)
           /\ (get_user_by_email(users, resp.email) = {}) # (get_user_by_email(users, email) = {}))
          => resp'.status = resp.status /\ resp'.body = resp.body]_vars

\* whatever settings.ENVIRONMENT would be, the two answers differ
C22_BodiesDiffer ==
    \A u \in users, reset_token \in ResetTokens, environment \in Environments :
        request_password_reset(users, u.email, reset_token, environment)
            # request_password_reset(users, "nobody@x.org", reset_token, environment)

\* a registered email was answered
C22_Witness ==
    /\ resp.op = "request_password_reset"
    /\ get_user_by_email(users, resp.email) # {}
    /\ resp.status = 500

\* C23: every IDE session expires 24 hours (one calendar day) after its
\* creation, whatever the creation date, the last day of a month included,
\* so creating or opening a project never fails because of the date.
C23_SessionExpiresNextDay ==
    /\ \A i \in DOMAIN ide.active_sessions :
         ide.active_sessions[i].expires_at = PlusOneDay(ide.active_sessions[i].created_at)
    /\ ide.out.status # 500

\* the sessions that are created do expire on the next day
C23_CreatedSessionsExpireNextDay ==
    \A i \in DOMAIN ide.active_sessions :
        ide.active_sessions[i].expires_at = PlusOneDay(ide.active_sessions[i].created_at)

\* a project is created on the last day of a month
C23_Witness ==
    /\ ide.out.op = "create_project"
    /\ ide.today.day = DaysInMonth(ide.today.year, ide.today.month)
    /\ ide.out.status = 500
    /\ ide.active_sessions = <<>>

\* C24: when two uploads (create_app_version requests) for the same app run
\* concurrently, then under every interleaving of their commits, once both
\* have completed exactly one version of the app is flagged is_latest and
\* the app's latest_version_id refers to that version.
C24_OneLatestAfterBoth ==
    \A i, j \in DOMAIN reqs :
        (/\ i # j
         /\ reqs[i].op = "upload" /\ reqs[j].op = "upload"
         /\ reqs[i].pc = "done" /\ reqs[j].pc = "done"
         /\ reqs[i].app = reqs[j].app)
        => LET latest == {v \in DOMAIN db.versions :
                            /\ db.versions[v].quantum_app_id = reqs[i].app
                            /\ db.versions[v].is_latest}
           IN /\ Cardinality(latest) = 1
              /\ db.apps[reqs[i].app].latest_version_id \in latest

\* both uploads have completed and no version of their app is flagged
C24_Witness ==
    /\ Len(reqs) = 2
    /\ reqs[1].op = "upload" /\ reqs[2].op = "upload"
    /\ reqs[1].pc = "done" /\ reqs[2].pc = "done"
    /\ reqs[1].app = reqs[2].app
    /\ \A v \in DOMAIN db.versions : ~db.versions[v].is_latest
    /\ db.apps[reqs[1].app].latest_version_id \in DOMAIN db.versions

\* C25: the download endpoint returns a package only when the version of
\* the URL belongs to the app of the URL; for a version of another app it
\* answers 404, as the version-detail endpoint does.
C25_DownloadOnlyOwnVersion ==
    (resp.op = "download_package" /\ resp.id \in DOMAIN db.versions
                                  /\ db.versions[resp.id].quantum_app_id # resp.app_id)
    => resp.status = 404

\* the version-detail endpoint does answer 404 for a version of another app
C25_DetailOnlyOwnVersion ==
    (resp.op = "get_app_version" /\ resp.id \in DOMAIN db.versions
                                 /\ db.versions[resp.id].quantum_app_id # resp.app_id)
    => resp.status = 404

\* the package of a version of one app is sent under the URL of another app
C25_Witness ==
    /\ resp.op = "download_package" /\ resp.status = 200
    /\ db.versions[resp.id].quantum_app_id # resp.app_id
    /\ resp.content = db.versions[resp.id].package_data

C27_OnlyOwnKeys ==
    [][\A c \in Callers, row \in apikeys.rows :
          /\ (/\ row.user_id # c
              /\ \/ GetApiKeyEndpoint(c, row.id)
                 \/ UpdateApiKeyEndpoint(c, row.id)
                 \/ DeleteApiKeyEndpoint(c, row.id))
             => apikeys'.out.status = 404 /\ apikeys'.rows = apikeys.rows
          /\ (row.user_id = c /\ DeleteApiKeyEndpoint(c, row.id))
             => apikeys'.out.status \in 200..299 /\ apikeys'.rows = apikeys.rows \ {row}]_vars

\* no request changes a row of the table
C27_RowsUnchanged == [][apikeys'.rows = apikeys.rows]_vars

\* a delete was answered while a key of each user is in the table
C27_Witness ==
    /\ apikeys.out.op = "delete_api_key_endpoint"
    /\ apikeys.out.status = 500
    /\ \E r1, r2 \in apikeys.rows : r1.user_id # r2.user_id

\* C28: after any sequence of create, upload, release and delete
\* operations every project's quantum_app_id and every app's
\* latest_version_id refers to a row that still exists: deleting a quantum
\* app leaves no project and no app pointing at a missing app or version.
C28_ReferencesExist ==
    /\ \A p \in DOMAIN db.projects :
         db.projects[p].quantum_app_id # NullId => db.projects[p].quantum_app_id \in DOMAIN db.apps
    /\ \A a \in DOMAIN db.apps :
         db.apps[a].latest_version_id # NullId => db.apps[a].latest_version_id \in DOMAIN db.versions
    /\ \A v \in DOMAIN db.versions : db.versions[v].quantum_app_id \in DOMAIN db.apps

\* the delete of an app that a project refers to was refused
C28_Witness ==
    /\ resp.op = "delete_app" /\ resp.status = 500
    /\ \E p \in DOMAIN db.projects : db.projects[p].quantum_app_id \in DOMAIN db.apps

\* an app was deleted together with its versions
C28_Cascade ==
    /\ resp.op = "delete_app" /\ resp.status = 200
    /\ Cardinality(DOMAIN db.versions) < db.next_ver - 1
    /\ DOMAIN db.apps # {}

\* C29: a refresh token is valid exactly while it exists, is not revoked and
\* has not expired, and revocation is permanent: once revoke_refresh_token
\* has succeeded for a token, is_refresh_token_valid is false for it in every
\* later state; likewise a password-reset token is never valid again once it
\* has been marked used.
C29_RevocationPermanent ==
    /\ \A token \in TokenValues :
         is_refresh_token_valid(tokdb.refresh_tokens, token, tokdb.now)
         <=> \E row \in tokdb.refresh_tokens :
                 row.token = token /\ ~row.is_revoked /\ tokdb.now <= row.expires_at
    /\ \A token \in tokdb.revoked :
         ~is_refresh_token_valid(tokdb.refresh_tokens, token, tokdb.now)
    /\ \A token \in tokdb.used :
         ~is_password_reset_token_valid(tokdb.password_resets, token, tokdb.now)
    /\ tokdb.out.op = "is_refresh_token_valid" /\ tokdb.out.token \in tokdb.revoked
         => ~tokdb.out.result
    /\ tokdb.out.op = "is_password_reset_token_valid" /\ tokdb.out.token \in tokdb.used
         => ~tokdb.out.result

\* a revoked refresh token that has not expired was asked about, and a
\* password-reset token has been marked used
C29_Witness ==
    /\ tokdb.out.op = "is_refresh_token_valid"
    /\ tokdb.out.token \in tokdb.revoked
    /\ \E row \in tokdb.refresh_tokens :
         row.token = tokdb.out.token /\ tokdb.now <= row.expires_at
    /\ tokdb.used # {}

\* C30: in the in-memory key store, after any sequence of create, revoke and
\* validate calls, validate_api_key(k) returns the owning user's id exactly
\* when k is a stored key that has never been revoked and is not expired,
\* and None otherwise; a revoke by a user who does not own the key returns
\* False and leaves the key active.
C30_ValidExactlyWhenLive ==
    /\ \A api_key \in KeyStrings :
         LET live == {key_data \in apikeys.store :
                        /\ key_data.key = api_key
                        /\ api_key \notin apikeys.revoked
                        /\ ~key_expired(key_data, apikeys.now)}
             result == validate_api_key(apikeys.store, api_key, apikeys.now)
         IN /\ live = {} => result = NULL
            /\ \A key_data \in live : result = key_data.user_id
    /\ apikeys.out.op = "validate_api_key" /\ apikeys.out.result # NULL
         => \E key_data \in apikeys.store :
               /\ key_data.key = apikeys.out.arg
               /\ key_data.user_id = apikeys.out.result
               /\ key_data.key \notin apikeys.revoked
    /\ apikeys.out.op = "revoke_api_key"
         => \A key_data \in apikeys.store :
               (key_data.id = apikeys.out.arg /\ key_data.user_id # apikeys.out.user_id)
               => /\ apikeys.out.result = FALSE
                  /\ key_data.is_active <=> key_data.key \notin apikeys.revoked
    /\ \A key_data \in apikeys.store :
         key_data.key \notin apikeys.revoked => key_data.is_active

\* a user who does not own a key has tried to revoke it, and the key is
\* still validated for its owner
C30_Witness ==
    /\ apikeys.out.op = "revoke_api_key"
    /\ ~apikeys.out.result
    /\ \E key_data \in apikeys.store :
         /\ key_data.id = apikeys.out.arg
         /\ key_data.user_id # apikeys.out.user_id
         /\ validate_api_key(apikeys.store, key_data.key, apikeys.now) = key_data.user_id
    /\ apikeys.revoked # {}

\* a revoked key string was presented and refused
C30_RevokedRefused ==
    /\ apikeys.out.op = "validate_api_key"
    /\ apikeys.out.arg \in apikeys.revoked
    /\ apikeys.out.result = NULL

====
